---- MODULE Spec2Model ----
(***************************************************************************)
(* The collation data generator (makemysqldata.go), the registry its       *)
(* generated init() fills, and the lookup / weight-string calls made on    *)
(* that registry afterwards.                                               *)
(*                                                                         *)
(* A collation or charset name is the sequence of its "_"-separated        *)
(* tokens: "utf8mb4_0900_ai_ci" is <<"utf8mb4","0900","ai","ci">>.  A      *)
(* tailoring key "U+0063" is the sequence of the hexadecimal digits that   *)
(* follow its two-character prefix: <<0,0,6,3>>.                           *)
(***************************************************************************)
EXTENDS Integers, Sequences, FiniteSets, TLC

VARIABLES
    phase,              \* "start" | "aborted" | "generated" | "init" | "initialized" | "fatal"
    allMetadata,        \* the records loadMysqlMetadata returned (sorted by Number)
    file,               \* the generated file: tables, collationsUnsupportedByName, init()
    regpc,              \* position of init() in its sequence of register calls
    collationsByName,   \* registry directory: name -> collation
    collationsById,     \* registry directory: id -> collation
    weightTables,       \* the shared weight tables, by table name
    pending,            \* per caller: the call in flight, or Idle
    ret,                \* per caller: its last call with the result, or NoRet
    gen,                \* a generator function under test: its input and output
    wr                  \* the Wrangler call under test: its environment and progress

vars == <<phase, allMetadata, file, regpc, collationsByName, collationsById,
          weightTables, pending, ret, gen, wr>>

(***************************************************************************)
(* Bounds of the model.                                                    *)
(***************************************************************************)
MaxTextLen == 3
MaxCmpLen == 2
MaxProbeLen == 1
MaxLenArg == 5
MaxPad == 2
MaxCtrWeights == 7
MaxDedupCalls == 3
MaxStatements == 2

(***************************************************************************)
(* Generic helpers.                                                        *)
(***************************************************************************)
Nil == <<>>

Min(a, b) == IF a < b THEN a ELSE b

SeqsUpTo(S, n) == UNION {[1..k -> S] : k \in 0..n}

(* strings.HasSuffix(name, "_" + suffix) on token sequences: the leading   *)
(* underscore needs a (possibly empty) token in front of the suffix.       *)
HasSuffix(name, suffix) ==
    /\ Len(name) > Len(suffix)
    /\ SubSeq(name, Len(name) - Len(suffix) + 1, Len(name)) = suffix


(***************************************************************************)
(* Sample input: collation metadata records as colldump writes them, one   *)
(* per collation of the reference server (unique Name, unique Number).     *)
(***************************************************************************)
K20 == <<0, 0, 2, 0>>
K63 == <<0, 0, 6, 3>>
K68 == <<0, 0, 6, 8>>
K7A == <<0, 0, 7, 10>>

Bytes == {32, 99, 104, 122, 255}

Meta(name, charset, impl, number, default, binary, version) ==
    [Name |-> name, Charset |-> charset, CollationImpl |-> impl, Number |-> number,
     Default |-> default, Binary |-> binary, UCAVersion |-> version,
     SortOrder |-> Nil, TabToUni |-> Nil, TabFromUni |-> Nil,
     Weights |-> Nil, Contractions |-> Nil, Reorder |-> Nil,
     UpperCaseFirst |-> FALSE]

Ctr(path, weights, contextual) ==
    [Path |-> path, Weights |-> weights, Contextual |-> contextual]

WeightsUca400 == (K20 :> <<521>>) @@ (K63 :> <<3680>>) @@ (K68 :> <<3809>>)
WeightsUca520 == (K20 :> <<521>>) @@ (K63 :> <<4623>>) @@ (K68 :> <<4819>>)
WeightsUca900 ==
    (K20 :> <<521, 32, 2>>) @@ (K63 :> <<7290, 32, 2>>) @@ (K68 :> <<7448, 32, 2>>)
WeightsSpanish2 ==
    (K20 :> <<521>>) @@ (K63 :> <<3680>>) @@ (K68 :> <<3700>>) @@ (K7A :> <<4000, 4001>>)
WeightsZh ==
    (K20 :> <<521, 32, 2>>) @@ (K63 :> <<7000, 32, 2>>) @@ (K68 :> <<7448, 32, 2>>)
WeightsRu ==
    (K20 :> <<521, 32, 2>>) @@ (K63 :> <<7290, 32, 2>>) @@ (K68 :> <<7300, 32, 4>>)

SortOrderLatin1 == (32 :> 32) @@ (99 :> 67) @@ (104 :> 72) @@ (122 :> 90) @@ (255 :> 89)
SortOrderSjis == (32 :> 32) @@ (99 :> 67) @@ (104 :> 72) @@ (122 :> 90) @@ (255 :> 255)

M_unicode_ci ==
    [Meta(<<"utf8mb4", "unicode", "ci">>, "utf8mb4", "any_uca", 224, FALSE, FALSE, 400)
        EXCEPT !.Weights = WeightsUca400]
M_unicode_520_ci ==
    [Meta(<<"utf8mb4", "unicode", "520", "ci">>, "utf8mb4", "any_uca", 246, FALSE, FALSE, 520)
        EXCEPT !.Weights = WeightsUca520]
M_0900_ai_ci ==
    [Meta(<<"utf8mb4", "0900", "ai", "ci">>, "utf8mb4", "uca_900", 255, TRUE, FALSE, 900)
        EXCEPT !.Weights = WeightsUca900]
M_0900_bin ==
    Meta(<<"utf8mb4", "0900", "bin">>, "utf8mb4", "utf8mb4_0900_bin", 309, FALSE, TRUE, 0)
M_tis620_bin ==
    Meta(<<"tis620", "bin">>, "tis620", "8bit_bin", 89, FALSE, TRUE, 0)
M_spanish2_ci ==
    [Meta(<<"utf8mb4", "spanish2", "ci">>, "utf8mb4", "any_uca", 238, FALSE, FALSE, 400)
        EXCEPT !.Weights = WeightsSpanish2,
               !.Contractions = << Ctr(<<99, 104>>, <<3690, 0, 0, 0, 0, 0, 0, 0>>, FALSE),
                                   Ctr(<<99, 104, 104>>, <<3695, 3696, 0, 0, 0, 0>>, FALSE),
                                   Ctr(<<104, 122>>, <<3810, 0, 0>>, TRUE) >>]
M_zh_0900_as_cs ==
    [Meta(<<"utf8mb4", "zh", "0900", "as", "cs">>, "utf8mb4", "uca_900", 308, FALSE, FALSE, 900)
        EXCEPT !.Weights = WeightsZh,
               !.Reorder = << <<7000, 7999, 512, 1511>> >>]
M_ru_0900_ai_ci ==
    [Meta(<<"utf8mb4", "ru", "0900", "ai", "ci">>, "utf8mb4", "uca_900", 306, FALSE, FALSE, 900)
        EXCEPT !.Weights = WeightsRu,
               !.Reorder = << <<7200, 7299, 600, 699>> >>]
M_latin1_swedish_ci ==
    [Meta(<<"latin1", "swedish", "ci">>, "latin1", "8bit_simple_ci", 8, TRUE, FALSE, 0)
        EXCEPT !.SortOrder = SortOrderLatin1]
M_latin1_bin(default) ==
    Meta(<<"latin1", "bin">>, "latin1", "8bit_bin", 47, default, TRUE, 0)
M_gb18030_unicode_520_ci ==
    [Meta(<<"gb18030", "unicode", "520", "ci">>, "gb18030", "gb18030_uca", 250, FALSE, FALSE, 520)
        EXCEPT !.Weights = WeightsUca520]
M_sjis_japanese_ci ==
    [Meta(<<"sjis", "japanese", "ci">>, "sjis", "sjis_japanese_ci", 13, TRUE, FALSE, 0)
        EXCEPT !.SortOrder = SortOrderSjis]
M_utf8mb4_bin ==
    Meta(<<"utf8mb4", "bin">>, "utf8mb4", "utf8mb4_bin", 46, FALSE, TRUE, 0)
M_utf8mb4_general_ci ==
    Meta(<<"utf8mb4", "general", "ci">>, "utf8mb4", "utf8mb4_general_ci", 45, FALSE, FALSE, 0)
M_latin1_german2_ci ==
    Meta(<<"latin1", "german2", "ci">>, "latin1", "latin1_german2_ci", 31, FALSE, FALSE, 0)

(* records every input holds, and records an input may hold *)
RequiredMeta ==
    {M_unicode_ci, M_unicode_520_ci, M_0900_ai_ci, M_0900_bin,
     M_gb18030_unicode_520_ci, M_utf8mb4_bin, M_utf8mb4_general_ci, M_ru_0900_ai_ci}
OptionalMeta ==
    {M_tis620_bin, M_spanish2_ci, M_zh_0900_as_cs, M_latin1_swedish_ci,
     M_latin1_bin(FALSE), M_latin1_bin(TRUE), M_sjis_japanese_ci, M_latin1_german2_ci}
FullMeta == RequiredMeta \cup (OptionalMeta \ {M_latin1_bin(TRUE)})

UniqueRecords(S) ==
    \A m1, m2 \in S : m1 # m2 => m1.Name # m2.Name /\ m1.Number # m2.Number

InputSets == {RequiredMeta \cup S : S \in {T \in SUBSET OptionalMeta : UniqueRecords(T)}}

RECURSIVE SortByNumber(_)
(* loadMysqlMetadata: the records in ascending Number *)
SortByNumber(S) ==
    IF S = {} THEN <<>>
    ELSE LET m == CHOOSE x \in S : \A y \in S : x.Number <= y.Number
         IN  <<m>> \o SortByNumber(S \ {m})

(* findCollation: the record of that name, or Nil *)
findCollation(all, name) ==
    LET hit == {i \in 1..Len(all) : all[i].Name = name}
    IN  IF hit = {} THEN Nil ELSE all[CHOOSE i \in hit : \A j \in hit : i <= j]


(***************************************************************************)
(* The generator, makemysqldata.go.                                        *)
(***************************************************************************)
Print8BitData == FALSE      \* flag -full8bit, default

CleanupGlobalAllocations == TRUE    \* flag -cleanup-allocs, set

NoTable == <<>>             \* the empty table name ""

RECURSIVE ParseHex(_)
(* strconv.ParseInt(key[2:], 16, 32): the value of the hexadecimal digits, *)
(* or -1 for an error (no digits, or a value outside 32 signed bits)       *)
ParseHex(digits) ==
    IF digits = <<>> THEN -1
    ELSE IF Len(digits) = 1 THEN digits[1]
    ELSE LET hi == ParseHex(SubSeq(digits, 1, Len(digits) - 1))
             v  == hi * 16 + digits[Len(digits)]
         IN  IF hi < 0 \/ v > 2147483647 THEN -1 ELSE v

RECURSIVE SortPatches_Descending(_)
(* mutant: the comparison of sort.Slice is turned round *)
SortPatches_Descending(S) ==
    IF S = {} THEN <<>>
    ELSE LET m == CHOOSE x \in S : \A y \in S : x.Codepoint >= y.Codepoint
         IN  <<m>> \o SortPatches_Descending(S \ {m})

RECURSIVE SortPatches(_)
(* sort.Slice(diff, Codepoint <): ascending in Codepoint *)
SortPatches(S) ==
    IF S = {} THEN <<>>
    ELSE LET m == CHOOSE x \in S : \A y \in S : x.Codepoint <= y.Codepoint
         IN  <<m>> \o SortPatches(S \ {m})

(* mutant: vectors of equal length are taken to be equal *)
diffMaps_LengthOnly(orgWeights, modWeights) ==
    IF DOMAIN modWeights = {} THEN [panic |-> FALSE, diff |-> Nil]
    ELSE LET diffMap == {key \in DOMAIN modWeights :
                            \/ key \notin DOMAIN orgWeights
                            \/ Len(orgWeights[key]) # Len(modWeights[key])}
         IN  IF \E key \in diffMap : ParseHex(key) < 0 THEN [panic |-> TRUE, diff |-> Nil]
             ELSE [panic |-> FALSE,
                   diff |-> SortPatches({[Codepoint |-> ParseHex(key), Patch |-> modWeights[key]] :
                                            key \in diffMap})]

(* diffMaps: the weight patches that turn orgWeights into modWeights, as   *)
(* [panic, diff]; a key that does not parse panics                         *)
diffMaps(orgWeights, modWeights) ==
    IF DOMAIN modWeights = {} THEN [panic |-> FALSE, diff |-> Nil]
    ELSE LET diffMap == {key \in DOMAIN modWeights :
                            \/ key \notin DOMAIN orgWeights
                            \/ Len(orgWeights[key]) # Len(modWeights[key])
                            \/ \E i \in 1..Len(modWeights[key]) :
                                   orgWeights[key][i] # modWeights[key][i]}
         IN  IF \E key \in diffMap : ParseHex(key) < 0 THEN [panic |-> TRUE, diff |-> Nil]
             ELSE [panic |-> FALSE,
                   diff |-> SortPatches({[Codepoint |-> ParseHex(key), Patch |-> modWeights[key]] :
                                            key \in diffMap})]

(* fmt.Sprintf("%#v", val): the Go type and the value *)
Raw(type, val) == [type |-> type, val |-> val]

(* mutant: the seen-map is not written *)
dedupTable_Forgets(name, coll, raw, dedup) ==
    LET hit == {i \in 1..Len(dedup) : dedup[i].raw.type = raw.type /\ dedup[i].raw.val = raw.val}
    IN  IF hit # {}
        THEN [varname |-> dedup[CHOOSE i \in hit : TRUE].varname, dup |-> TRUE, dedup |-> dedup]
        ELSE [varname |-> <<name, coll>>, dup |-> FALSE, dedup |-> dedup]

(* dedupTable: the variable holding val, whether it was declared already,  *)
(* and the seen-map afterwards (a sequence of [raw, varname], oldest first)*)
dedupTable(name, coll, raw, dedup) ==
    LET hit == {i \in 1..Len(dedup) : dedup[i].raw.type = raw.type /\ dedup[i].raw.val = raw.val}
    IN  IF hit # {}
        THEN [varname |-> dedup[CHOOSE i \in hit : TRUE].varname, dup |-> TRUE, dedup |-> dedup]
        ELSE [varname |-> <<name, coll>>, dup |-> FALSE,
              dedup |-> Append(dedup, [raw |-> raw, varname |-> <<name, coll>>])]

(* a table variable declared in the generated file *)
Decl(varname, type, content) == [name |-> varname, type |-> type, content |-> content]

(* the accumulated output of main's loop *)
Acc0 == [tables |-> <<>>, init |-> <<>>, dedup |-> <<>>, unsupported |-> <<>>,
         panicked |-> FALSE, last |-> NoTable]

(* print*Slice / write* helpers: declare val under name_coll unless an     *)
(* equal table was declared before; acc.last is the returned variable name *)
PrintTable(acc, name, coll, type, val, content) ==
    LET d == dedupTable(name, coll, Raw(type, val), acc.dedup)
    IN  [acc EXCEPT !.dedup = d.dedup,
                    !.last = d.varname,
                    !.tables = IF d.dup THEN @ ELSE Append(@, Decl(d.varname, type, content))]

(* lines 144-153: the base weights of the record's UCA version *)
BaseWeightsOf(meta, base) ==
    CASE meta.UCAVersion = 400 -> base.uca400
      [] meta.UCAVersion = 520 -> base.uca520
      [] meta.UCAVersion = 900 -> base.uca900

writeWeightPatches(meta, acc, base) ==
    IF meta.UCAVersion \notin {400, 520, 900} THEN [acc EXCEPT !.panicked = TRUE]
    ELSE LET d == diffMaps(BaseWeightsOf(meta, base), meta.Weights)
         IN  IF d.panic THEN [acc EXCEPT !.panicked = TRUE]
             ELSE IF Len(d.diff) > 0
             THEN PrintTable(acc, "weightTailoring", meta.Name, "[]uca.WeightPatch", d.diff, d.diff)
             ELSE [acc EXCEPT !.last = NoTable]

(* lines 179-184: cut the weights before the first all-zero triple found   *)
(* at i = 0, 3, 6, ... while i < len - 3                                   *)
TrimWeights(w) ==
    LET zero == {i \in 0..Len(w) : /\ i % 3 = 0
                                   /\ i < Len(w) - 3
                                   /\ w[i + 1] = 0 /\ w[i + 2] = 0 /\ w[i + 3] = 0}
    IN  IF zero = {} THEN w
        ELSE SubSeq(w, 1, CHOOSE i \in zero : \A j \in zero : i <= j)

writeContractions(meta, acc) ==
    IF Len(meta.Contractions) > 0
    THEN PrintTable(acc, "contractions", meta.Name, "[]uca.Contraction", meta.Contractions,
                    [k \in 1..Len(meta.Contractions) |->
                        [meta.Contractions[k] EXCEPT !.Weights = TrimWeights(@)]])
    ELSE [acc EXCEPT !.last = NoTable]

writeReorders(meta, acc) ==
    IF Len(meta.Reorder) > 0
    THEN PrintTable(acc, "reorder", meta.Name, "[][4]uint16", meta.Reorder,
                    [k \in 1..Len(meta.Reorder) |->
                        [FromMin |-> meta.Reorder[k][1], FromMax |-> meta.Reorder[k][2],
                         ToMin |-> meta.Reorder[k][3], ToMax |-> meta.Reorder[k][4]]])
    ELSE [acc EXCEPT !.last = NoTable]

(* mutant: the default flag is not the record's *)
Call_AlwaysDefault(type, meta) ==
    [type |-> type, name |-> meta.Name, id |-> meta.Number, charset |-> meta.Charset,
     weights |-> "", tailoring |-> NoTable, contractions |-> NoTable, reorder |-> NoTable,
     levelsForCompare |-> 0, maxCodepoint |-> 0, sort |-> NoTable, unicase |-> "",
     tounicode |-> NoTable, fromunicode |-> NoTable,
     upperCaseFirst |-> FALSE, isDefault |-> TRUE]

(* mutant: the id printed is not the record's Number *)
Call_IdFromVersion(type, meta) ==
    [type |-> type, name |-> meta.Name, id |-> meta.UCAVersion, charset |-> meta.Charset,
     weights |-> "", tailoring |-> NoTable, contractions |-> NoTable, reorder |-> NoTable,
     levelsForCompare |-> 0, maxCodepoint |-> 0, sort |-> NoTable, unicase |-> "",
     tounicode |-> NoTable, fromunicode |-> NoTable,
     upperCaseFirst |-> FALSE, isDefault |-> meta.Default]

(* a register(&Type{...}, isDefault) call of the generated init(); fields  *)
(* a call does not set keep Go's zero value                                *)
Call(type, meta) ==
    [type |-> type, name |-> meta.Name, id |-> meta.Number, charset |-> meta.Charset,
     weights |-> "", tailoring |-> NoTable, contractions |-> NoTable, reorder |-> NoTable,
     levelsForCompare |-> 0, maxCodepoint |-> 0, sort |-> NoTable, unicase |-> "",
     tounicode |-> NoTable, fromunicode |-> NoTable,
     upperCaseFirst |-> FALSE, isDefault |-> meta.Default]

(* mutant: the legacy tables are taken for each other *)
UcaTableName_Swapped(version) ==
    CASE version = 400 -> "uca520" [] version = 520 -> "uca400"
      [] version = 900 -> "uca900" [] OTHER -> "uca?"

(* line 121: uca.WeightTable_uca<UCAVersion> *)
UcaTableName(version) ==
    CASE version = 400 -> "uca400" [] version = 520 -> "uca520"
      [] version = 900 -> "uca900" [] OTHER -> "uca?"

writeUcaLegacy(meta, acc, base) ==
    LET a1 == writeWeightPatches(meta, acc, base)
        a2 == writeContractions(meta, a1)
        call == [Call("Collation_uca_legacy", meta) EXCEPT
                    !.weights = UcaTableName(meta.UCAVersion),
                    !.tailoring = a1.last,
                    !.contractions = a2.last,
                    !.maxCodepoint = IF meta.UCAVersion = 400 THEN 65535 ELSE 1114111]
    IN  IF a1.panicked \/ meta.UCAVersion \notin {400, 520}
        THEN [acc EXCEPT !.panicked = TRUE]
        ELSE [a2 EXCEPT !.init = Append(@, call)]

(* levelsForCompare by name suffix, 0 when no case matches (panic) *)
(* mutant: a name with none of the suffixes compares on one level *)
LevelsForName_DefaultOne(name) ==
    IF HasSuffix(name, <<"as", "ci">>) THEN 2
    ELSE IF HasSuffix(name, <<"as", "cs">>) THEN 3
    ELSE IF HasSuffix(name, <<"as", "cs", "ks">>) THEN 4
    ELSE 1

(* lines 247-259: levelsForCompare by suffix, 0 for the panic of default *)
LevelsForName(name) ==
    CASE HasSuffix(name, <<"ai", "ci">>) -> 1
      [] HasSuffix(name, <<"as", "ci">>) -> 2
      [] HasSuffix(name, <<"as", "cs">>) -> 3
      [] HasSuffix(name, <<"as", "cs", "ks">>) -> 4
      [] OTHER -> 0

writeUca900(meta0, acc, base) ==
    LET isZh == meta0.Name = <<"utf8mb4", "zh", "0900", "as", "cs">>
        isJa == meta0.Name \in {<<"utf8mb4", "ja", "0900", "as", "cs">>,
                                <<"utf8mb4", "ja", "0900", "as", "cs", "ks">>}
        tableWeights == IF isZh THEN "uca900_zh" ELSE IF isJa THEN "uca900_ja" ELSE "uca900"
        meta == [meta0 EXCEPT !.Weights = IF isZh \/ isJa THEN Nil ELSE @,
                              !.Reorder = IF isZh THEN Nil ELSE @]
        a1 == writeWeightPatches(meta, acc, base)
        a2 == writeContractions(meta, a1)
        a3 == writeReorders(meta, a2)
        levels == LevelsForName(meta.Name)
        call == [Call("Collation_utf8mb4_uca_0900", meta) EXCEPT
                    !.levelsForCompare = levels,
                    !.weights = tableWeights,
                    !.tailoring = a1.last,
                    !.contractions = a2.last,
                    !.reorder = a3.last,
                    !.upperCaseFirst = meta.UpperCaseFirst]
    IN  IF meta0.UCAVersion # 900 \/ a1.panicked \/ levels = 0
        THEN [acc EXCEPT !.panicked = TRUE]
        ELSE [a3 EXCEPT !.init = Append(@, call)]

write8bit(meta, acc) ==
    LET a1 == IF meta.SortOrder # Nil
              THEN PrintTable(acc, "sortorder", meta.Name, "[]byte", meta.SortOrder, meta.SortOrder)
              ELSE [acc EXCEPT !.last = NoTable]
        a2 == IF meta.Charset # "latin1" /\ meta.TabToUni # Nil
              THEN PrintTable(a1, "tounicode", meta.Name, "[]uint16", meta.TabToUni, meta.TabToUni)
              ELSE [a1 EXCEPT !.last = NoTable]
        a3 == IF meta.Charset # "latin1" /\ meta.TabFromUni # Nil
              THEN PrintTable(a2, "fromunicode", meta.Name, "[]charset.UnicodeMapping",
                              meta.TabFromUni, meta.TabFromUni)
              ELSE [a2 EXCEPT !.last = NoTable]
        call == [Call(IF meta.Binary THEN "Collation_8bit_bin" ELSE "Collation_8bit_simple_ci", meta)
                    EXCEPT !.sort = a1.last, !.tounicode = a2.last, !.fromunicode = a3.last]
    IN  [a3 EXCEPT !.init = Append(@, call)]

writeUnicode(meta, acc) ==
    LET call == [Call(IF meta.Binary THEN "Collation_unicode_bin"
                                     ELSE "Collation_unicode_general_ci", meta)
                    EXCEPT !.unicase = IF meta.Binary THEN "" ELSE "unicaseInfo_default"]
    IN  [acc EXCEPT !.init = Append(@, call)]

(* mutant: the multibyte registration names a reorder table *)
writeMultibyte_WithReorder(meta, acc) ==
    [acc EXCEPT !.init = Append(@, [Call("Collation_multibyte", meta)
                                       EXCEPT !.reorder = <<"reorder", meta.Name>>])]

writeMultibyte(meta, acc) ==
    LET a1 == IF meta.SortOrder # Nil
              THEN PrintTable(acc, "sortorder", meta.Name, "[]byte", meta.SortOrder, meta.SortOrder)
              ELSE [acc EXCEPT !.last = NoTable]
        call == [Call("Collation_multibyte", meta) EXCEPT !.sort = a1.last]
    IN  [a1 EXCEPT !.init = Append(@, call)]

(* charset.IsMultibyteByName, charset.IsUnicodeByName *)
IsMultibyteByName(cs) == cs \in {"big5", "cp932", "eucjpms", "euckr", "gb2312", "gbk", "sjis", "ujis", "gb18030"}
IsUnicodeByName(cs) == cs \in {"utf8", "utf8mb3", "utf8mb4", "utf16", "utf16le", "ucs2", "utf32"}

(* mutant: the multibyte rule is tried before the gb18030 rule *)
ClassifyAndWrite_MultibyteFirst(meta, acc, base) ==
    IF meta.Name = <<"utf8mb4", "0900", "bin">> \/ meta.Name = <<"binary">> THEN acc
    ELSE IF meta.Name = <<"tis620", "bin">> THEN acc
    ELSE IF meta.CollationImpl \in {"any_uca", "utf16_uca", "utf32_uca", "ucs2_uca"}
    THEN writeUcaLegacy(meta, acc, base)
    ELSE IF meta.CollationImpl = "uca_900" THEN writeUca900(meta, acc, base)
    ELSE IF meta.CollationImpl \in {"8bit_bin", "8bit_simple_ci"} THEN write8bit(meta, acc)
    ELSE IF IsMultibyteByName(meta.Charset) THEN writeMultibyte(meta, acc)
    ELSE IF meta.Name = <<"gb18030", "unicode", "520", "ci">>
    THEN writeUcaLegacy(meta, acc, base)
    ELSE IF HasSuffix(meta.Name, <<"bin">>) /\ IsUnicodeByName(meta.Charset)
    THEN writeUnicode(meta, acc)
    ELSE IF HasSuffix(meta.Name, <<"general", "ci">>) THEN writeUnicode(meta, acc)
    ELSE [acc EXCEPT !.unsupported = Append(@, meta)]

(* one pass of main's loop (lines 471-507): the first matching case decides *)
ClassifyAndWrite(meta, acc, base) ==
    IF meta.Name = <<"utf8mb4", "0900", "bin">> \/ meta.Name = <<"binary">> THEN acc
    ELSE IF meta.Name = <<"tis620", "bin">> THEN acc
    ELSE IF meta.CollationImpl \in {"any_uca", "utf16_uca", "utf32_uca", "ucs2_uca"}
    THEN writeUcaLegacy(meta, acc, base)
    ELSE IF meta.CollationImpl = "uca_900" THEN writeUca900(meta, acc, base)
    ELSE IF meta.CollationImpl \in {"8bit_bin", "8bit_simple_ci"} THEN write8bit(meta, acc)
    ELSE IF meta.Name = <<"gb18030", "unicode", "520", "ci">>
    THEN writeUcaLegacy(meta, acc, base)
    ELSE IF IsMultibyteByName(meta.Charset) THEN writeMultibyte(meta, acc)
    ELSE IF HasSuffix(meta.Name, <<"bin">>) /\ IsUnicodeByName(meta.Charset)
    THEN writeUnicode(meta, acc)
    ELSE IF HasSuffix(meta.Name, <<"general", "ci">>) THEN writeUnicode(meta, acc)
    ELSE [acc EXCEPT !.unsupported = Append(@, meta)]

(* the words of the generated variable names, in the byte order of their   *)
(* spelling; no word is the beginning of another word of a table name      *)
Words ==
    << "0900", "520", "ai", "as", "bin", "ci", "contractions", "cs", "fromunicode",
       "gb18030", "general", "german2", "ja", "japanese", "ks", "latin1", "reorder",
       "ru", "sjis", "sortorder", "spanish2", "swedish", "tis620", "tounicode",
       "unicode", "utf8mb4", "weightTailoring", "zh" >>

WordRank(w) == CHOOSE i \in 1..Len(Words) : Words[i] = w

(* the words of the variable name <name>_<coll> *)
WordsOf(varname) == <<varname[1]>> \o varname[2]

(* x < y for Go strings, on names given by their words *)
StringLess(x, y) ==
    \E i \in 1..Len(y) :
        /\ i <= Len(x) + 1
        /\ \A j \in 1..(i - 1) : x[j] = y[j]
        /\ i = Len(x) + 1 \/ WordRank(x[i]) < WordRank(y[i])

RECURSIVE SortStrings(_)
(* sort.Strings(cleanup) *)
SortStrings(S) ==
    IF S = {} THEN <<>>
    ELSE LET m == CHOOSE x \in S : \A y \in S \ {x} : StringLess(WordsOf(x), WordsOf(y))
         IN  <<m>> \o SortStrings(S \ {m})

(* lines 527-536: the variables set to nil at the end of init() *)
Cleanup(dedup) ==
    IF CleanupGlobalAllocations
    THEN SortStrings({dedup[i].varname : i \in 1..Len(dedup)})
    ELSE <<>>

RECURSIVE MainLoop(_, _, _, _)
MainLoop(all, i, acc, base) ==
    IF i > Len(all) \/ acc.panicked THEN acc
    ELSE MainLoop(all, i + 1, ClassifyAndWrite(all[i], acc, base), base)

(* the file main writes (lines 509-538); Nil when the generator panicked   *)
GeneratedFile(all) ==
    LET b400 == findCollation(all, <<"utf8mb4", "unicode", "ci">>)
        b520 == findCollation(all, <<"utf8mb4", "unicode", "520", "ci">>)
        b900 == findCollation(all, <<"utf8mb4", "0900", "ai", "ci">>)
    IN  IF b400 = Nil \/ b520 = Nil \/ b900 = Nil THEN Nil
        ELSE LET acc == MainLoop(all, 1, Acc0,
                                 [uca400 |-> b400.Weights, uca520 |-> b520.Weights,
                                  uca900 |-> b900.Weights])
             IN  IF acc.panicked THEN Nil
                 ELSE [tables |-> acc.tables,
                       collationsUnsupportedByName |->
                           [k \in 1..Len(acc.unsupported) |->
                               [name |-> acc.unsupported[k].Name,
                                id |-> acc.unsupported[k].Number]],
                       init |-> acc.init,
                       cleanup |-> Cleanup(acc.dedup)]


(***************************************************************************)
(* The collations package at run time: the static weight tables, the       *)
(* registry that the generated init() fills through register, and lookups. *)
(***************************************************************************)
(* a tailoringWeights map keyed by codepoint *)
ByCodepoint(weights) ==
    [cp \in {ParseHex(k) : k \in DOMAIN weights} |->
        weights[CHOOSE k \in DOMAIN weights : ParseHex(k) = cp]]

(* uca.WeightTable_uca400, _uca520, _uca900 and the whole tables of the    *)
(* Chinese and Japanese 0900 collations                                    *)
StaticWeightTables ==
    [uca400 |-> ByCodepoint(WeightsUca400),
     uca520 |-> ByCodepoint(WeightsUca520),
     uca900 |-> ByCodepoint(WeightsUca900),
     uca900_zh |-> ByCodepoint(WeightsZh),
     uca900_ja |-> ByCodepoint(WeightsUca900)]

(* the content of the table variable a register call names *)
TableContent(f, varname) ==
    IF varname = NoTable THEN Nil
    ELSE LET hit == {i \in 1..Len(f.tables) : f.tables[i].name = varname}
         IN  IF hit = {} THEN Nil ELSE f.tables[CHOOSE i \in hit : TRUE].content

(* the Collation value a register call constructs *)
MakeCollation(call, f) ==
    [name |-> call.name, id |-> call.id, charset |-> call.charset, variant |-> call.type,
     weights |-> call.weights,
     tailoring |-> TableContent(f, call.tailoring),
     contractions |-> TableContent(f, call.contractions),
     reorder |-> TableContent(f, call.reorder),
     levelsForCompare |-> call.levelsForCompare,
     sort |-> TableContent(f, call.sort),
     isDefault |-> call.isDefault]

Registered(byName, byId) ==
    {byName[n] : n \in DOMAIN byName} \cup {byId[i] : i \in DOMAIN byId}

(* register refuses a second default collation of a charset *)
SecondDefault(c, byName, byId) ==
    /\ c.isDefault
    /\ \E d \in Registered(byName, byId) : d.isDefault /\ d.charset = c.charset

NoCollation == [name |-> <<>>]

Result(err, coll, bytes, order) == [err |-> err, coll |-> coll, bytes |-> bytes, order |-> order]

(* mutant: a name that is not registered is always unknown *)
LookupByName_NoUnsupported(name, byName, f) ==
    IF name \in DOMAIN byName THEN Result("", byName[name], <<>>, 0)
    ELSE Result("UnknownCollation", NoCollation, <<>>, 0)

LookupByName(name, byName, f) ==
    IF name \in DOMAIN byName THEN Result("", byName[name], <<>>, 0)
    ELSE IF \E k \in 1..Len(f.collationsUnsupportedByName) :
                f.collationsUnsupportedByName[k].name = name
    THEN Result("UnsupportedCollation", NoCollation, <<>>, 0)
    ELSE Result("UnknownCollation", NoCollation, <<>>, 0)

LookupById(id, byId) ==
    IF id \in DOMAIN byId THEN Result("", byId[id], <<>>, 0)
    ELSE Result("UnknownCollation", NoCollation, <<>>, 0)

(***************************************************************************)
(* Charset codec.                                                          *)
(***************************************************************************)
(* single-byte charsets decode every byte; the others are modelled on      *)
(* their one-byte range, where a byte above 0x7F alone is ill-formed       *)
IsSingleByteCharset(cs) == cs \in {"latin1", "tis620"}

ValidText(cs, src) ==
    IsSingleByteCharset(cs) \/ \A i \in 1..Len(src) : src[i] < 128

Decode(cs, src) == [i \in 1..Len(src) |-> src[i]]

(***************************************************************************)
(* Weight derivation.                                                      *)
(***************************************************************************)
IsUca(c) == c.variant \in {"Collation_uca_legacy", "Collation_utf8mb4_uca_0900"}

IsPadSpace(c) ==
    c.variant \in {"Collation_uca_legacy", "Collation_8bit_simple_ci",
                   "Collation_unicode_general_ci", "Collation_multibyte"}

(* mutant: trailing spaces are kept *)
StripSpaces_None(t) == t

RECURSIVE StripSpaces(_)
(* the text without its trailing spaces *)
StripSpaces(t) ==
    IF t # <<>> /\ t[Len(t)] = 32 THEN StripSpaces(SubSeq(t, 1, Len(t) - 1)) ELSE t

(* weights per collation element: 1 in the legacy tables, 3 in UCA 9.0.0 *)
Stride(c) == IF c.variant = "Collation_utf8mb4_uca_0900" THEN 3 ELSE 1

Levels(c) == IF c.variant = "Collation_utf8mb4_uca_0900" THEN c.levelsForCompare ELSE 1

(* the implicit weight of a codepoint without an entry (UCA default:       *)
(* AAAA = base + (cp >> 15), BBBB = (cp & 0x7FFF) | 0x8000)                *)
ImplicitWeights(c, cp) ==
    IF Stride(c) = 3
    THEN <<64448 + (cp \div 32768), 32, 2, (cp % 32768) + 32768, 0, 0>>
    ELSE <<64448 + (cp \div 32768), (cp % 32768) + 32768>>

RECURSIVE FindPatch(_, _, _)
(* index of the first patch for cp at or after k, 0 when there is none *)
FindPatch(patches, cp, k) ==
    IF k > Len(patches) THEN 0
    ELSE IF patches[k].Codepoint = cp THEN k
    ELSE FindPatch(patches, cp, k + 1)

(* Lookup: the collation's patch, else its weight table, else implicit *)
WeightLookup(c, cp, tables) ==
    LET k == FindPatch(c.tailoring, cp, 1)
    IN  IF k > 0 THEN c.tailoring[k].Patch
        ELSE IF cp \in DOMAIN tables[c.weights] THEN tables[c.weights][cp]
        ELSE ImplicitWeights(c, cp)

(* the contraction's path lies at position i of the text; a contextual     *)
(* contraction needs its last codepoint as the lookahead                   *)
MatchesAt(k, cps, i) ==
    LET n == Len(k.Path)
    IN  /\ i + n - 1 <= Len(cps)
        /\ IF k.Contextual
           THEN /\ \A j \in 1..(n - 1) : cps[i + j - 1] = k.Path[j]
                /\ cps[i + n - 1] = k.Path[n]
           ELSE \A j \in 1..n : cps[i + j - 1] = k.Path[j]

(* mutant: the shortest matching path wins *)
FindContraction_ShortestFirst(ctrs, cps, i, n) ==
    LET hit == {k \in 1..Len(ctrs) : Len(ctrs[k].Path) <= n /\ MatchesAt(ctrs[k], cps, i)}
    IN  IF hit = {} THEN 0
        ELSE CHOOSE k \in hit : \A j \in hit : Len(ctrs[k].Path) <= Len(ctrs[j].Path)

RECURSIVE FindContraction(_, _, _, _)
(* index of a contraction of at most n codepoints matching at i, trying    *)
(* the longest paths first; 0 when none matches                            *)
FindContraction(ctrs, cps, i, n) ==
    IF n < 1 THEN 0
    ELSE LET hit == {k \in 1..Len(ctrs) : Len(ctrs[k].Path) = n /\ MatchesAt(ctrs[k], cps, i)}
         IN  IF hit # {} THEN CHOOSE k \in hit : \A j \in hit : k <= j
             ELSE FindContraction(ctrs, cps, i, n - 1)

RECURSIVE Scan(_, _, _, _)
(* the collation elements of the text from position i on: each the         *)
(* position, the codepoints consumed, the weights and how they were found  *)
Scan(c, cps, i, tables) ==
    IF i > Len(cps) THEN <<>>
    ELSE LET k == FindContraction(c.contractions, cps, i, Len(cps) - i + 1)
             e == IF k > 0
                  THEN [pos |-> i, len |-> Len(c.contractions[k].Path),
                        weights |-> c.contractions[k].Weights, contraction |-> TRUE]
                  ELSE [pos |-> i, len |-> 1,
                        weights |-> WeightLookup(c, cps[i], tables), contraction |-> FALSE]
         IN  <<e>> \o Scan(c, cps, i + e.len, tables)

RECURSIVE ApplyReorder(_, _, _)
(* the primary weight remapped by the first range that holds it *)
ApplyReorder(reorder, w, k) ==
    IF k > Len(reorder) THEN w
    ELSE IF reorder[k].FromMin <= w /\ w <= reorder[k].FromMax
    THEN reorder[k].ToMin + (w - reorder[k].FromMin)
    ELSE ApplyReorder(reorder, w, k + 1)

RECURSIVE LevelOf(_, _, _, _, _)
(* the non-zero weights of one level of a weight vector, from index j on *)
LevelOf(c, w, level, j, stride) ==
    IF j > Len(w) THEN <<>>
    ELSE LET x == IF level = 1 THEN ApplyReorder(c.reorder, w[j], 1) ELSE w[j]
         IN  (IF w[j] = 0 THEN <<>> ELSE <<x>>) \o LevelOf(c, w, level, j + stride, stride)

RECURSIVE LevelWeights(_, _, _, _)
(* the weights of one level over all collation elements from k on *)
LevelWeights(c, elems, level, k) ==
    IF k > Len(elems) THEN <<>>
    ELSE LevelOf(c, elems[k].weights, level, level, Stride(c))
            \o LevelWeights(c, elems, level, k + 1)

RECURSIVE AllLevels(_, _, _)
(* all primary weights, then all secondary, ... up to Levels(c) *)
AllLevels(c, elems, level) ==
    IF level > Levels(c) \/ level > Stride(c) THEN <<>>
    ELSE LevelWeights(c, elems, level, 1) \o AllLevels(c, elems, level + 1)

RECURSIVE PutWeights_WholeWeights(_, _, _)
(* mutant: the limit is tested once per weight, not once per byte *)
PutWeights_WholeWeights(buf, ws, maxLen) ==
    IF ws = <<>> THEN buf
    ELSE IF maxLen > 0 /\ Len(buf) >= maxLen THEN buf
    ELSE PutWeights_WholeWeights(Append(Append(buf, ws[1] \div 256), ws[1] % 256),
                                 Tail(ws), maxLen)

RECURSIVE PutWeights(_, _, _)
(* the 16-bit weights appended to buf high byte first; with maxLen > 0 no  *)
(* byte is written once buf holds maxLen bytes                             *)
PutWeights(buf, ws, maxLen) ==
    IF ws = <<>> THEN buf
    ELSE IF maxLen > 0 /\ Len(buf) >= maxLen THEN buf
    ELSE LET b1 == Append(buf, ws[1] \div 256)
             b2 == IF maxLen > 0 /\ Len(b1) >= maxLen THEN b1 ELSE Append(b1, ws[1] % 256)
         IN  PutWeights(b2, Tail(ws), maxLen)

(* the output cut at maxLen bytes; maxLen = 0 leaves it whole *)
Cap(bytes, maxLen) ==
    IF maxLen > 0 /\ Len(bytes) > maxLen THEN SubSeq(bytes, 1, maxLen) ELSE bytes

(* unicaseInfo_default: the sort fold of a codepoint *)
Unicase(cp) == IF 97 <= cp /\ cp <= 122 THEN cp - 32 ELSE cp

SortByte(c, b) == IF c.sort # Nil /\ b \in DOMAIN c.sort THEN c.sort[b] ELSE b

(* the weight bytes of a well-formed text *)
WeightBytes(c, src, maxLen, tables) ==
    LET cps0 == Decode(c.charset, src)
        cps  == IF IsPadSpace(c) THEN StripSpaces(cps0) ELSE cps0
    IN  CASE IsUca(c) ->
                PutWeights(<<>>, AllLevels(c, Scan(c, cps, 1, tables), 1), maxLen)
          [] c.variant = "Collation_unicode_general_ci" ->
                PutWeights(<<>>, [i \in 1..Len(cps) |-> Unicase(cps[i])], maxLen)
          [] c.variant \in {"Collation_8bit_simple_ci", "Collation_multibyte"} ->
                Cap([i \in 1..Len(cps) |-> SortByte(c, cps[i])], maxLen)
          [] OTHER -> Cap(src, maxLen)

(* mutant: the output buffer is shared with the other caller's last result *)
WeightString_SharedBuffer(c, src, maxLen, tables) ==
    IF ~ValidText(c.charset, src) THEN Result("InvalidEncoding", NoCollation, <<>>, 0)
    ELSE Result("", NoCollation,
                (IF ret[2].op = "returned" THEN ret[2].result.bytes ELSE <<>>)
                    \o WeightBytes(c, src, maxLen, tables), 0)

(* mutant: an ill-formed text is weighed like any other *)
WeightString_Unchecked(c, src, maxLen, tables) ==
    Result("", NoCollation, WeightBytes(c, src, maxLen, tables), 0)

WeightString(c, src, maxLen, tables) ==
    IF ~ValidText(c.charset, src) THEN Result("InvalidEncoding", NoCollation, <<>>, 0)
    ELSE Result("", NoCollation, WeightBytes(c, src, maxLen, tables), 0)

(* mutant: the shorter string is the smaller *)
ByteCompare_LengthFirst(x, y) ==
    IF Len(x) < Len(y) THEN -1
    ELSE IF Len(x) > Len(y) THEN 1
    ELSE LET d == {i \in 1..Len(x) : x[i] # y[i]}
         IN  IF d = {} THEN 0
             ELSE LET i == CHOOSE k \in d : \A j \in d : k <= j
                  IN  IF x[i] < y[i] THEN -1 ELSE 1

RECURSIVE ByteCompare(_, _)
(* bytes.Compare: -1, 0 or 1 *)
ByteCompare(x, y) ==
    IF x = <<>> /\ y = <<>> THEN 0
    ELSE IF x = <<>> THEN -1
    ELSE IF y = <<>> THEN 1
    ELSE IF x[1] < y[1] THEN -1
    ELSE IF x[1] > y[1] THEN 1
    ELSE ByteCompare(Tail(x), Tail(y))

(* Compare orders two texts as their whole weight strings order *)
Compare(c, a, b, tables) ==
    IF ~ValidText(c.charset, a) \/ ~ValidText(c.charset, b)
    THEN Result("InvalidEncoding", NoCollation, <<>>, 0)
    ELSE Result("", NoCollation, <<>>,
                ByteCompare(WeightBytes(c, a, 0, tables), WeightBytes(c, b, 0, tables)))

(* what a call returns on the registry as it stands *)
Execute(call, byName, byId, tables, f) ==
    CASE call.op = "LookupByName" -> LookupByName(call.name, byName, f)
      [] call.op = "LookupById" -> LookupById(call.id, byId)
      [] call.op = "WeightString" ->
            WeightString(byName[call.coll], call.src, call.maxLen, tables)
      [] call.op = "Compare" -> Compare(byName[call.coll], call.a, call.b, tables)

(***************************************************************************)
(* State machine.                                                          *)
(***************************************************************************)
Idle == [op |-> "idle"]
NoRet == [op |-> "none"]
Callers == {1, 2}
NoGen == [fn |-> "none"]
NoWr == [fn |-> "none"]

Init ==
    /\ phase = "start"
    /\ allMetadata \in {SortByNumber(S) : S \in InputSets}
    /\ file = Nil
    /\ regpc = 0
    /\ collationsByName = <<>>
    /\ collationsById = <<>>
    /\ weightTables = StaticWeightTables
    /\ pending = [c \in Callers |-> Idle]
    /\ ret = [c \in Callers |-> NoRet]
    /\ gen = NoGen
    /\ wr = NoWr

(* main(): classify every record and write the generated file *)
Main ==
    /\ phase = "start"
    /\ file' = GeneratedFile(allMetadata)
    /\ phase' = IF file' = Nil THEN "aborted" ELSE "init"
    /\ regpc' = 1
    /\ UNCHANGED <<wr, gen, allMetadata, collationsByName, collationsById,
                   weightTables, pending, ret>>

(* init(): the next register call *)
Register ==
    /\ phase = "init"
    /\ regpc <= Len(file.init)
    /\ LET c == MakeCollation(file.init[regpc], file)
       IN  IF SecondDefault(c, collationsByName, collationsById)
           THEN /\ phase' = "fatal"
                /\ UNCHANGED <<regpc, collationsByName, collationsById>>
           ELSE /\ collationsByName' = (c.name :> c) @@ collationsByName
                /\ collationsById' = (c.id :> c) @@ collationsById
                /\ regpc' = regpc + 1
                /\ phase' = phase
    /\ UNCHANGED <<wr, gen, allMetadata, file, weightTables, pending, ret>>

(* init() returns: the package is initialized *)
InitReturn ==
    /\ phase = "init"
    /\ regpc > Len(file.init)
    /\ phase' = "initialized"
    /\ UNCHANGED <<wr, gen, allMetadata, file, regpc, collationsByName, collationsById,
                   weightTables, pending, ret>>

(* mutant: no barrier between init() and the first lookup *)
CanInvoke_DuringInit(caller) ==
    /\ phase \in {"init", "initialized"}
    /\ pending[caller] = Idle
    /\ ret[caller] = NoRet

(* lookups are permitted once init() has returned; a caller makes one     *)
(* call at a time                                                          *)
CanInvoke(caller) ==
    /\ phase = "initialized"
    /\ pending[caller] = Idle
    /\ ret[caller] = NoRet

(* a caller starts a call on the initialized package *)
Invoke(caller, call) ==
    /\ CanInvoke(caller)
    /\ pending' = [pending EXCEPT ![caller] = call]
    /\ UNCHANGED <<wr, gen, phase, allMetadata, file, regpc, collationsByName, collationsById,
                   weightTables, ret>>

(* the call of a caller runs and returns *)
Return(caller) ==
    /\ pending[caller] # Idle
    /\ ret' = [ret EXCEPT ![caller] =
                  [op |-> "returned", call |-> pending[caller],
                   result |-> Execute(pending[caller], collationsByName, collationsById,
                                      weightTables, file)]]
    /\ pending' = [pending EXCEPT ![caller] = Idle]
    /\ UNCHANGED <<wr, gen, phase, allMetadata, file, regpc, collationsByName, collationsById,
                   weightTables>>

(* the caller has used the result of its last call *)
Consume(caller) ==
    /\ ret[caller] # NoRet
    /\ ret' = [ret EXCEPT ![caller] = NoRet]
    /\ UNCHANGED <<wr, gen, phase, allMetadata, file, regpc, collationsByName, collationsById,
                   weightTables, pending>>

AllNames == {m.Name : m \in RequiredMeta \cup OptionalMeta} \cup {<<"no", "such", "collation">>}
AllIds == {m.Number : m \in RequiredMeta \cup OptionalMeta} \cup {9999}

LookupCalls ==
    {[op |-> "LookupByName", name |-> n] : n \in AllNames}
        \cup {[op |-> "LookupById", id |-> i] : i \in AllIds}

InvokeLookup ==
    /\ CanInvoke(1)
    /\ \E call \in LookupCalls : Invoke(1, call)

ReturnCall == Return(1)

ConsumeResult == Consume(1)

Next == Main \/ Register \/ InitReturn \/ InvokeLookup \/ ReturnCall \/ ConsumeResult

Spec == Init /\ [][Next]_vars

(***************************************************************************)
(* Properties of the generator and the registry (under Spec).              *)
(***************************************************************************)
Tis620Bin == <<"tis620", "bin">>

InInput(name) == \E i \in 1..Len(allMetadata) : allMetadata[i].Name = name

MetaOf(name) == findCollation(allMetadata, name)

UnsupportedNames ==
    IF file = Nil THEN {}
    ELSE {file.collationsUnsupportedByName[k].name : k \in 1..Len(file.collationsUnsupportedByName)}

RegisteredNow == Registered(collationsByName, collationsById)

(* C1: when the metadata holds tis620_bin, the generated file lists it in  *)
(* collationsUnsupportedByName, it is never registered, and looking it up  *)
(* returns UnsupportedCollation.                                           *)
C1_Tis620Unsupported ==
    (phase \in {"init", "initialized"} /\ InInput(Tis620Bin)) =>
        /\ Tis620Bin \in UnsupportedNames
        /\ Tis620Bin \notin DOMAIN collationsByName
        /\ LookupByName(Tis620Bin, collationsByName, file).err = "UnsupportedCollation"

(* C7: at most one registered collation is the default of a charset; init  *)
(* is fatal exactly at a register call whose record is marked default for  *)
(* a charset that has a registered default, and that call registers        *)
(* nothing.                                                                *)
C7_OneDefaultPerCharset ==
    /\ \A c1, c2 \in RegisteredNow :
          (c1.isDefault /\ c2.isDefault /\ c1.charset = c2.charset) => c1 = c2
    /\ phase = "fatal" =>
          /\ regpc <= Len(file.init)
          /\ MetaOf(file.init[regpc].name).Default
          /\ file.init[regpc].name \notin DOMAIN collationsByName
          /\ \E d \in RegisteredNow :
                /\ d.isDefault
                /\ d.charset = file.init[regpc].charset
                /\ MetaOf(d.name).Default
    /\ phase = "initialized" =>
          \A k \in 1..Len(file.init) :
              /\ file.init[k].name \in DOMAIN collationsByName
              /\ collationsByName[file.init[k].name].isDefault = MetaOf(file.init[k].name).Default

C7_Witness ==
    /\ phase = "fatal"
    /\ \E d \in RegisteredNow : d.isDefault /\ d.charset = file.init[regpc].charset
    /\ \E d \in RegisteredNow : d.isDefault /\ d.charset # file.init[regpc].charset

(* C8: no two registered collations share an id or a name, both            *)
(* directories lead to the same collation, and every id is the Number of   *)
(* the metadata record of that name.                                       *)
C8_RegistryUnique ==
    /\ \A c1, c2 \in RegisteredNow : (c1.id = c2.id \/ c1.name = c2.name) => c1 = c2
    /\ \A c \in RegisteredNow :
          /\ LookupById(c.id, collationsById).coll = c
          /\ LookupByName(c.name, collationsByName, file).coll = c
          /\ InInput(c.name)
          /\ c.id = MetaOf(c.name).Number
    /\ \A n \in DOMAIN collationsByName : collationsByName[n].name = n
    /\ \A i \in DOMAIN collationsById : collationsById[i].id = i

C8_Witness ==
    /\ phase = "initialized"
    /\ Cardinality(DOMAIN collationsByName) >= 12
    /\ Cardinality(DOMAIN collationsById) >= 12

ProbeCodepoints == {32, 65, 99, 104, 122}

PatchesFor(c, cp) == {k \in 1..Len(c.tailoring) : c.tailoring[k].Codepoint = cp}

(* the weight vector of cp when table is the collation's weight table *)
ByPrecedence(c, cp, table, w) ==
    /\ PatchesFor(c, cp) # {} => \E k \in PatchesFor(c, cp) : w = c.tailoring[k].Patch
    /\ (PatchesFor(c, cp) = {} /\ cp \in DOMAIN weightTables[table]) =>
          w = weightTables[table][cp]
    /\ (PatchesFor(c, cp) = {} /\ cp \notin DOMAIN weightTables[table]) =>
          w = ImplicitWeights(c, cp)

SharedTableOfVersion(version) ==
    CASE version = 400 -> "uca400" [] version = 520 -> "uca520" [] version = 900 -> "uca900"

OwnTableOf(name) ==
    CASE name = <<"utf8mb4", "zh", "0900", "as", "cs">> -> "uca900_zh"
      [] name \in {<<"utf8mb4", "ja", "0900", "as", "cs">>,
                   <<"utf8mb4", "ja", "0900", "as", "cs", "ks">>} -> "uca900_ja"
      [] OTHER -> SharedTableOfVersion(MetaOf(name).UCAVersion)

(* C6 as stated: the weight vector of a codepoint is the collation's patch *)
(* entry, else the entry of the shared weight table of the collation's UCA *)
(* version, else the implicit weight; no patch changes a shared table.     *)
C6_PatchThenSharedThenImplicit ==
    /\ weightTables = StaticWeightTables
    /\ \A c \in RegisteredNow : IsUca(c) =>
          \A cp \in ProbeCodepoints :
              ByPrecedence(c, cp, SharedTableOfVersion(MetaOf(c.name).UCAVersion),
                           WeightLookup(c, cp, weightTables))

(* C6 amended: ... else the entry of the weight table the collation is     *)
(* registered with, which is the shared table of its UCA version except    *)
(* for utf8mb4_zh_0900_as_cs, utf8mb4_ja_0900_as_cs and                    *)
(* utf8mb4_ja_0900_as_cs_ks, which are registered with a whole table of    *)
(* their own and no patch; else the implicit weight. No patch changes a    *)
(* weight table.                                                           *)
C6_PatchThenOwnTableThenImplicit ==
    /\ weightTables = StaticWeightTables
    /\ \A c \in RegisteredNow : IsUca(c) =>
          /\ OwnTableOf(c.name) # SharedTableOfVersion(MetaOf(c.name).UCAVersion) =>
                c.tailoring = Nil
          /\ \A cp \in ProbeCodepoints :
                ByPrecedence(c, cp, OwnTableOf(c.name), WeightLookup(c, cp, weightTables))

C6_Witness ==
    /\ phase = "initialized"
    /\ \E c \in RegisteredNow :
          /\ c.weights = "uca900_zh"
          /\ \E cp \in ProbeCodepoints \cap DOMAIN weightTables.uca900 :
                WeightLookup(c, cp, weightTables) # weightTables.uca900[cp]
    /\ \E c \in RegisteredNow : \E cp \in ProbeCodepoints :
          /\ IsUca(c)
          /\ PatchesFor(c, cp) # {}
          /\ cp \in DOMAIN weightTables[c.weights]
          /\ WeightLookup(c, cp, weightTables) # weightTables[c.weights][cp]
    /\ \E c \in RegisteredNow : \E cp \in ProbeCodepoints :
          /\ IsUca(c)
          /\ PatchesFor(c, cp) = {}
          /\ cp \notin DOMAIN weightTables[c.weights]

Returned(caller, op) ==
    /\ ret[caller] # NoRet
    /\ ret[caller].call.op = op

Texts(n) == SeqsUpTo(Bytes, n)

InitEngine ==
    /\ Init
    /\ allMetadata = SortByNumber(FullMeta)

InvokeWeightString ==
    /\ CanInvoke(1)
    /\ \E n \in DOMAIN collationsByName, t \in Texts(MaxTextLen), k \in 0..MaxLenArg :
           Invoke(1, [op |-> "WeightString", coll |-> n, src |-> t, maxLen |-> k])

InvokeCompare ==
    /\ CanInvoke(1)
    /\ \E n \in DOMAIN collationsByName, a \in Texts(MaxCmpLen), b \in Texts(MaxCmpLen) :
           Invoke(1, [op |-> "Compare", coll |-> n, a |-> a, b |-> b])

NextEngine ==
    \/ Main \/ Register \/ InitReturn
    \/ InvokeWeightString \/ InvokeCompare \/ ReturnCall \/ ConsumeResult

SpecEngine == InitEngine /\ [][NextEngine]_vars


(***************************************************************************)
(* Properties of the weight engine (under SpecEngine).                     *)
(***************************************************************************)
CollOf(caller) == collationsByName[ret[caller].call.coll]

Succeeded(caller, op) == Returned(caller, op) /\ ret[caller].result.err = ""

Whole(c, src) == WeightString(c, src, 0, weightTables).bytes

(* x precedes y in byte-lexicographic order *)
LexLess(x, y) ==
    \E i \in 1..Len(y) :
        /\ i <= Len(x) + 1
        /\ \A j \in 1..(i - 1) : x[j] = y[j]
        /\ i = Len(x) + 1 \/ x[i] < y[i]

Order(c, a, b) == Compare(c, a, b, weightTables).order

C3_TruncationIsPrefix ==
    Succeeded(1, "WeightString") =>
        LET full == Whole(CollOf(1), ret[1].call.src)
            n == ret[1].call.maxLen
        IN  n < Len(full) =>
                /\ Len(ret[1].result.bytes) = n
                /\ ret[1].result.bytes = SubSeq(full, 1, n)

(* C3 amended: for every N with 1 <= N smaller than the length of the      *)
(* whole weight string, WeightString(s, N) has N bytes and is its first N  *)
(* bytes; N = 0 is the unbounded call and returns the whole weight string. *)
C3_TruncationIsPrefixFromOne ==
    Succeeded(1, "WeightString") =>
        LET full == Whole(CollOf(1), ret[1].call.src)
            n == ret[1].call.maxLen
        IN  /\ (1 <= n /\ n < Len(full)) =>
                /\ Len(ret[1].result.bytes) = n
                /\ ret[1].result.bytes = SubSeq(full, 1, n)
            /\ n = 0 => ret[1].result.bytes = full

C3_Witness ==
    /\ Succeeded(1, "WeightString")
    /\ IsUca(CollOf(1))
    /\ ret[1].call.maxLen = 3
    /\ Len(Whole(CollOf(1), ret[1].call.src)) >= 6
    /\ Len(ret[1].result.bytes) = 3

(* the codepoints WeightString scans *)
Scanned(c, src) ==
    IF IsPadSpace(c) THEN StripSpaces(Decode(c.charset, src)) ELSE Decode(c.charset, src)

(* the path of contraction k lies in the text at position i *)
PathAt(k, cps, i) ==
    /\ i + Len(k.Path) - 1 <= Len(cps)
    /\ SubSeq(cps, i, i + Len(k.Path) - 1) = k.Path

(* C4: at every scan position the longest registered contraction that      *)
(* matches there gives the weights and the scan advances by its length; a  *)
(* single codepoint is looked up only where no contraction matches.        *)
C4_LongestContractionWins ==
    (Succeeded(1, "WeightString") /\ IsUca(CollOf(1))) =>
        LET c == CollOf(1)
            cps == Scanned(c, ret[1].call.src)
            elems == Scan(c, cps, 1, weightTables)
            ctrs == c.contractions
            at(i) == {k \in 1..Len(ctrs) : PathAt(ctrs[k], cps, i)}
        IN  /\ cps # <<>> => (elems # <<>> /\ elems[1].pos = 1)
            /\ \A e \in 1..Len(elems) :
                  /\ elems[e].pos + elems[e].len =
                        (IF e < Len(elems) THEN elems[e + 1].pos ELSE Len(cps) + 1)
                  /\ \A k \in at(elems[e].pos) : Len(ctrs[k].Path) <= elems[e].len
                  /\ IF at(elems[e].pos) # {}
                     THEN /\ elems[e].contraction
                          /\ \E k \in at(elems[e].pos) :
                                /\ Len(ctrs[k].Path) = elems[e].len
                                /\ ctrs[k].Weights = elems[e].weights
                     ELSE /\ ~elems[e].contraction
                          /\ elems[e].len = 1
                          /\ elems[e].weights = WeightLookup(c, cps[elems[e].pos], weightTables)
            /\ ret[1].result.bytes =
                  PutWeights(<<>>, AllLevels(c, elems, 1), ret[1].call.maxLen)

C4_Witness ==
    /\ Succeeded(1, "WeightString")
    /\ IsUca(CollOf(1))
    /\ LET c == CollOf(1)
           cps == Scanned(c, ret[1].call.src)
           elems == Scan(c, cps, 1, weightTables)
       IN  \E e \in 1..Len(elems) :
              /\ elems[e].len = 3
              /\ \E k \in 1..Len(c.contractions) :
                    /\ Len(c.contractions[k].Path) = 2
                    /\ PathAt(c.contractions[k], cps, elems[e].pos)

Spaces(k) == [i \in 1..k |-> 32]

ConcTexts == {<<99, 104>>, <<255>>}
ConcColls == {<<"utf8mb4", "spanish2", "ci">>, <<"latin1", "swedish", "ci">>}

ConcCalls ==
    {[op |-> "LookupByName", name |-> n] :
        n \in {<<"latin1", "swedish", "ci">>, <<"latin1", "german2", "ci">>,
               <<"no", "such", "collation">>}}
    \cup {[op |-> "LookupById", id |-> i] : i \in {8, 9999}}
    \cup {[op |-> "WeightString", coll |-> n, src |-> t, maxLen |-> k] :
            n \in ConcColls, t \in ConcTexts, k \in {0, 1}}
    \cup {[op |-> "Compare", coll |-> n, a |-> a, b |-> b] :
            n \in ConcColls, a \in ConcTexts, b \in ConcTexts}

CanExecute(call) ==
    call.op \in {"WeightString", "Compare"} => call.coll \in DOMAIN collationsByName

InvokeAny ==
    \E caller \in Callers :
        /\ CanInvoke(caller)
        /\ \E call \in ConcCalls : CanExecute(call) /\ Invoke(caller, call)

ReturnAny == \E caller \in Callers : Return(caller)

ConsumeAny == \E caller \in Callers : Consume(caller)

NextConc == Main \/ Register \/ InitReturn \/ InvokeAny \/ ReturnAny \/ ConsumeAny

SpecConc == InitEngine /\ [][NextConc]_vars

TextsOf(call) ==
    CASE call.op = "WeightString" -> {call.src}
      [] call.op = "Compare" -> {call.a, call.b}
      [] OTHER -> {}

ErrorKinds == {"", "UnknownCollation", "UnsupportedCollation", "InvalidEncoding"}

SimplifiedVariants ==
    {"Collation_8bit_simple_ci", "Collation_8bit_bin", "Collation_unicode_general_ci",
     "Collation_unicode_bin", "Collation_multibyte"}

BinaryVariants == {"Collation_8bit_bin", "Collation_unicode_bin"}

NoWeightTables ==
    [uca400 |-> <<>>, uca520 |-> <<>>, uca900 |-> <<>>, uca900_zh |-> <<>>, uca900_ja |-> <<>>]

(* the collation with a patch, a contraction and a reorder range put in *)
WithUcaTables(c) ==
    [c EXCEPT !.tailoring = <<[Codepoint |-> 99, Patch |-> <<7>>]>>,
              !.contractions = <<Ctr(<<99, 104>>, <<9, 0, 0>>, FALSE)>>,
              !.reorder = <<[FromMin |-> 0, FromMax |-> 65535, ToMin |-> 1, ToMax |-> 65535]>>]

(* C12: a register call of a simplified variant names no weight table, no  *)
(* tailoring, no contraction and no reorder table and sets no level count; *)
(* the registered collation holds none, its weight string is the same      *)
(* whatever those tables and the shared weight tables hold, and a binary   *)
(* variant's weight string is the text itself.                             *)
C12_SimplifiedUseSortTableOnly ==
    /\ file # Nil =>
          \A k \in 1..Len(file.init) :
              file.init[k].type \in SimplifiedVariants =>
                  /\ file.init[k].weights = ""
                  /\ file.init[k].tailoring = NoTable
                  /\ file.init[k].contractions = NoTable
                  /\ file.init[k].reorder = NoTable
                  /\ file.init[k].levelsForCompare = 0
    /\ \A c \in RegisteredNow :
          c.variant \in SimplifiedVariants =>
              /\ c.tailoring = Nil /\ c.contractions = Nil /\ c.reorder = Nil
              /\ \A t \in Texts(MaxProbeLen + 1) :
                    /\ WeightBytes(WithUcaTables(c), t, 0, NoWeightTables)
                          = WeightBytes(c, t, 0, weightTables)
                    /\ c.variant \in BinaryVariants => WeightBytes(c, t, 0, weightTables) = t

C12_Witness ==
    /\ phase = "initialized"
    /\ \E c \in RegisteredNow :
          /\ c.variant = "Collation_multibyte"
          /\ c.sort # Nil
          /\ WeightBytes(c, <<99, 104>>, 0, weightTables) # <<99, 104>>
    /\ \E c \in RegisteredNow : c.variant = "Collation_8bit_simple_ci" /\ c.sort # Nil
    /\ \E c \in RegisteredNow : c.variant = "Collation_unicode_general_ci"
    /\ \E c \in RegisteredNow : c.variant \in BinaryVariants


KNone == <<>>                   \* a key with no digits after "U+"

PatchKeys == {K20, K63, K68}

WeightVectors == {<<521>>, <<3680>>, <<3680, 32>>}

TailoringMaps(keys) == UNION {[D -> WeightVectors] : D \in SUBSET keys}

DiffMapsInputs ==
    {[fn |-> "diffMaps", done |-> FALSE, org |-> o, mod |-> m,
      out |-> [panic |-> FALSE, diff |-> Nil]] :
        o \in TailoringMaps(PatchKeys), m \in TailoringMaps(PatchKeys \cup {KNone})}

Uca900Names ==
    {<<"utf8mb4", "0900", "ai", "ci">>, <<"utf8mb4", "0900", "as", "ci">>,
     <<"utf8mb4", "0900", "as", "cs">>, <<"utf8mb4", "ja", "0900", "as", "cs", "ks">>,
     <<"utf8mb4", "zh", "0900", "as", "cs">>, <<"utf8mb4", "0900", "ai">>,
     <<"utf8mb4", "0900", "cs", "ks">>, <<"as", "cs">>}

Uca900Inputs ==
    {[fn |-> "writeUca900", done |-> FALSE, out |-> Acc0,
      meta |-> [Meta(n, "utf8mb4", "uca_900", 300, d, FALSE, v)
                   EXCEPT !.Weights = w, !.Reorder = r]] :
        n \in Uca900Names, v \in {900, 520, 0}, d \in BOOLEAN,
        w \in {Nil, WeightsUca900, WeightsRu}, r \in {Nil, << <<7200, 7299, 600, 699>> >>}}

(* the base weights main takes from the three base collations *)
BaseWeights ==
    [uca400 |-> WeightsUca400, uca520 |-> WeightsUca520, uca900 |-> WeightsUca900]

ContractionsInputs ==
    {[fn |-> "writeContractions", done |-> FALSE, out |-> Acc0,
      meta |-> [Meta(<<"utf8mb4", "spanish2", "ci">>, "utf8mb4", "any_uca", 238,
                     FALSE, FALSE, 400)
                   EXCEPT !.Contractions = <<Ctr(<<99, 104>>, w, FALSE)>>]] :
        w \in SeqsUpTo({0, 3690}, MaxCtrWeights)}

(* a run of print*Slice calls on one seen-map: the output so far and, per  *)
(* call, what was asked and what dedupTable answered                       *)
DedupInputs == {[fn |-> "dedupTable", done |-> FALSE, out |-> Acc0, log |-> <<>>]}

(* the tables write8bit prints, with their Go types *)
TableNames == {"sortorder", "tolower", "tounicode"}

TypeOfTable(name) == IF name = "tounicode" THEN "[]uint16" ELSE "[]byte"

TableValues == {<<1>>, <<2>>}

TableOwners == {"latin1_bin", "latin2_bin"}

GenInputs == DiffMapsInputs \cup Uca900Inputs \cup ContractionsInputs \cup DedupInputs

InitGen ==
    /\ phase = "start"
    /\ allMetadata = SortByNumber(RequiredMeta)
    /\ file = Nil
    /\ regpc = 0
    /\ collationsByName = <<>>
    /\ collationsById = <<>>
    /\ weightTables = StaticWeightTables
    /\ pending = [c \in Callers |-> Idle]
    /\ ret = [c \in Callers |-> NoRet]
    /\ gen \in GenInputs
    /\ wr = NoWr

GenFrame ==
    UNCHANGED <<phase, allMetadata, file, regpc, collationsByName, collationsById,
                weightTables, pending, ret, wr>>

CallDiffMaps ==
    /\ gen.fn = "diffMaps"
    /\ ~gen.done
    /\ gen' = [gen EXCEPT !.done = TRUE, !.out = diffMaps(gen.org, gen.mod)]
    /\ GenFrame

CallWriteUca900 ==
    /\ gen.fn = "writeUca900"
    /\ ~gen.done
    /\ gen' = [gen EXCEPT !.done = TRUE, !.out = writeUca900(gen.meta, Acc0, BaseWeights)]
    /\ GenFrame

CallWriteContractions ==
    /\ gen.fn = "writeContractions"
    /\ ~gen.done
    /\ gen' = [gen EXCEPT !.done = TRUE, !.out = writeContractions(gen.meta, Acc0)]
    /\ GenFrame

(* one print*Slice call (lines 280-308); a collation prints each of its    *)
(* tables once                                                             *)
CallPrintSlice ==
    /\ gen.fn = "dedupTable"
    /\ Len(gen.log) < MaxDedupCalls
    /\ \E name \in TableNames, coll \in TableOwners, val \in TableValues :
          /\ \A i \in 1..Len(gen.log) : ~(gen.log[i].name = name /\ gen.log[i].coll = coll)
          /\ LET d == dedupTable(name, coll, Raw(TypeOfTable(name), val), gen.out.dedup)
             IN  gen' = [gen EXCEPT
                           !.out = PrintTable(gen.out, name, coll, TypeOfTable(name), val, val),
                           !.log = Append(@, [name |-> name, coll |-> coll,
                                              type |-> TypeOfTable(name), val |-> val,
                                              varname |-> d.varname, dup |-> d.dup])]
    /\ GenFrame

NextGen == CallDiffMaps \/ CallWriteUca900 \/ CallWriteContractions \/ CallPrintSlice

SpecGen == InitGen /\ [][NextGen]_vars

(* C14: diffMaps returns a patch for the codepoint of key k exactly when   *)
(* k is a key of the tailored map that the base map lacks or maps to a     *)
(* different vector; the patch is the tailored vector; looking a tailored  *)
(* key up in the patches first and in the base on a miss gives the         *)
(* tailored vector; an empty tailored map gives no patch.                  *)
C14_DiffMapsIsTheDifference ==
    (gen.fn = "diffMaps" /\ gen.done /\ ~gen.out.panic) =>
        LET org == gen.org
            mod == gen.mod
            diff == gen.out.diff
            at(k) == {j \in 1..Len(diff) : diff[j].Codepoint = ParseHex(k)}
            lookup(k) == IF at(k) # {} THEN diff[CHOOSE j \in at(k) : TRUE].Patch ELSE org[k]
        IN  /\ \A k \in PatchKeys \cup {KNone} :
                  at(k) # {} <=> (k \in DOMAIN mod /\ (k \notin DOMAIN org \/ org[k] # mod[k]))
            /\ \A j \in 1..Len(diff) :
                  \E k \in DOMAIN mod : ParseHex(k) = diff[j].Codepoint /\ diff[j].Patch = mod[k]
            /\ \A k \in DOMAIN mod : lookup(k) = mod[k]
            /\ DOMAIN mod = {} => diff = <<>>

C14_Witness ==
    /\ gen.fn = "diffMaps" /\ gen.done /\ ~gen.out.panic
    /\ Len(gen.out.diff) = 2
    /\ K20 \in DOMAIN gen.org /\ K20 \in DOMAIN gen.mod /\ gen.org[K20] = gen.mod[K20]
    /\ K63 \in DOMAIN gen.org /\ K63 \in DOMAIN gen.mod
    /\ Len(gen.org[K63]) = Len(gen.mod[K63]) /\ gen.org[K63] # gen.mod[K63]
    /\ K68 \notin DOMAIN gen.org /\ K68 \in DOMAIN gen.mod


(***************************************************************************)
(* Classification of the metadata records (under Spec).                    *)
(***************************************************************************)
RegisterCallsOf(name) == {k \in 1..Len(file.init) : file.init[k].name = name}

UnsupportedEntriesOf(name) ==
    {k \in 1..Len(file.collationsUnsupportedByName) :
        file.collationsUnsupportedByName[k].name = name}

Hardcoded == {<<"utf8mb4", "0900", "bin">>, <<"binary">>, <<"tis620", "bin">>}

(* the rules of main's switch that apply to a record, numbered in their   *)
(* order; rule 9 is the default branch                                     *)
RuleHits(m) ==
    {r \in 1..9 :
        \/ r = 1 /\ m.Name \in Hardcoded
        \/ r = 2 /\ m.CollationImpl \in {"any_uca", "utf16_uca", "utf32_uca", "ucs2_uca"}
        \/ r = 3 /\ m.CollationImpl = "uca_900"
        \/ r = 4 /\ m.CollationImpl \in {"8bit_bin", "8bit_simple_ci"}
        \/ r = 5 /\ m.Name = <<"gb18030", "unicode", "520", "ci">>
        \/ r = 6 /\ IsMultibyteByName(m.Charset)
        \/ r = 7 /\ IsUnicodeByName(m.Charset) /\ m.Name[Len(m.Name)] = "bin"
        \/ r = 8 /\ Len(m.Name) > 2 /\ m.Name[Len(m.Name) - 1] = "general"
                 /\ m.Name[Len(m.Name)] = "ci"
        \/ r = 9}

FirstRule(m) == CHOOSE r \in RuleHits(m) : \A q \in RuleHits(m) : r <= q

VariantsOfRule(r) ==
    CASE r \in {2, 5} -> {"Collation_uca_legacy"}
      [] r = 3 -> {"Collation_utf8mb4_uca_0900"}
      [] r = 4 -> {"Collation_8bit_bin", "Collation_8bit_simple_ci"}
      [] r = 6 -> {"Collation_multibyte"}
      [] r \in {7, 8} -> {"Collation_unicode_bin", "Collation_unicode_general_ci"}
      [] OTHER -> {}

(* C15: every record of the input has exactly one outcome, decided by the  *)
(* first rule of main's switch that applies to it: no output for the       *)
(* hardcoded names, one register call of a variant of that rule, or one    *)
(* entry of collationsUnsupportedByName when no rule applies; the file     *)
(* holds nothing else, and no collation is registered and unsupported.     *)
C15_ClassificationIsPartition ==
    /\ file # Nil =>
          /\ \A i \in 1..Len(allMetadata) :
                LET m == allMetadata[i]
                    r == FirstRule(m)
                    calls == RegisterCallsOf(m.Name)
                    entries == UnsupportedEntriesOf(m.Name)
                IN  /\ r = 1 => (calls = {} /\ entries = {})
                    /\ r \in 2..8 =>
                          /\ Cardinality(calls) = 1
                          /\ entries = {}
                          /\ \A k \in calls : /\ file.init[k].type \in VariantsOfRule(r)
                                              /\ file.init[k].id = m.Number
                    /\ r = 9 =>
                          /\ calls = {}
                          /\ Cardinality(entries) = 1
                          /\ \A k \in entries :
                                file.collationsUnsupportedByName[k].id = m.Number
          /\ \A k \in 1..Len(file.init) : InInput(file.init[k].name)
          /\ \A k \in 1..Len(file.collationsUnsupportedByName) :
                InInput(file.collationsUnsupportedByName[k].name)
    /\ DOMAIN collationsByName \cap UnsupportedNames = {}

C15_Witness ==
    /\ phase = "initialized"
    /\ collationsByName[<<"gb18030", "unicode", "520", "ci">>].variant = "Collation_uca_legacy"
    /\ <<"sjis", "japanese", "ci">> \in DOMAIN collationsByName
    /\ collationsByName[<<"sjis", "japanese", "ci">>].variant = "Collation_multibyte"
    /\ <<"latin1", "german2", "ci">> \in UnsupportedNames
    /\ InInput(Tis620Bin)


(***************************************************************************)
(* Comparison levels of the UCA 9.0.0 collations (under SpecGen).          *)
(***************************************************************************)
(* the last n tokens of a name that has more than n tokens *)
LastTokens(name, n) ==
    IF Len(name) > n THEN SubSeq(name, Len(name) - n + 1, Len(name)) ELSE <<>>

(* C16: writeUca900 writes one register call whose levelsForCompare is 1   *)
(* for _ai_ci, 2 for _as_ci, 3 for _as_cs and 4 for _as_cs_ks when the UCA *)
(* version is 900 and the name has one of these suffixes; otherwise it     *)
(* panics and writes no register call.                                     *)
C16_LevelsBySuffix ==
    (gen.fn = "writeUca900" /\ gen.done) =>
        LET name == gen.meta.Name
            lv == IF LastTokens(name, 3) = <<"as", "cs", "ks">> THEN 4
                  ELSE IF LastTokens(name, 2) = <<"as", "cs">> THEN 3
                  ELSE IF LastTokens(name, 2) = <<"as", "ci">> THEN 2
                  ELSE IF LastTokens(name, 2) = <<"ai", "ci">> THEN 1
                  ELSE 0
        IN  IF gen.meta.UCAVersion = 900 /\ lv # 0
            THEN /\ ~gen.out.panicked
                 /\ Len(gen.out.init) = 1
                 /\ gen.out.init[1].type = "Collation_utf8mb4_uca_0900"
                 /\ gen.out.init[1].name = name
                 /\ gen.out.init[1].levelsForCompare = lv
                 /\ gen.out.init[1].levelsForCompare \in 1..4
            ELSE /\ gen.out.panicked
                 /\ gen.out.init = <<>>

C16_Reached(name, version, levels) ==
    /\ gen.fn = "writeUca900" /\ gen.done
    /\ gen.meta.Name = name /\ gen.meta.UCAVersion = version
    /\ IF levels = 0 THEN gen.out.panicked
       ELSE ~gen.out.panicked /\ gen.out.init[1].levelsForCompare = levels

C16_Witness == C16_Reached(<<"utf8mb4", "ja", "0900", "as", "cs", "ks">>, 900, 4)


(***************************************************************************)
(* Trimming of contraction weights (under SpecGen).                        *)
(***************************************************************************)
(* the 0-based indexes, multiples of 3, of the all-zero triples of w *)
ZeroTriples(w) ==
    {i \in 0..(Len(w) - 3) : i % 3 = 0 /\ w[i + 1] = 0 /\ w[i + 2] = 0 /\ w[i + 3] = 0}

(* C17: the weight list writeContractions emits is the original list cut   *)
(* just before its first all-zero triple at a multiple of 3, so it holds   *)
(* no such triple, whatever the length of the original list; the value     *)
(* kept as the deduplication key is the untrimmed metadata.                *)
C17_TrimCutsAtFirstZeroTriple ==
    (gen.fn = "writeContractions" /\ gen.done) =>
        LET w == gen.meta.Contractions[1].Weights
            emitted == gen.out.tables[1].content[1].Weights
        IN  /\ emitted = IF ZeroTriples(w) = {} THEN w
                         ELSE SubSeq(w, 1, CHOOSE i \in ZeroTriples(w) :
                                               \A j \in ZeroTriples(w) : i <= j)
            /\ ZeroTriples(emitted) = {}
            /\ gen.out.dedup[1].raw.val = gen.meta.Contractions


(***************************************************************************)
(* Deduplication of tables (under SpecGen).                                *)
(***************************************************************************)
SameTable(x, y) == x.type = y.type /\ x.val = y.val

DeclsNamed(varname) == {k \in 1..Len(gen.out.tables) : gen.out.tables[k].name = varname}

RecordsOf(all) == {all[i] : i \in 1..Len(all)}

PatchTables ==
    {k \in 1..Len(file.tables) : file.tables[k].type = "[]uca.WeightPatch"}

(* C19: the file is the file of the set of records; its register calls and *)
(* its unsupported entries have strictly ascending numbers, the patches of *)
(* each tailoring strictly ascending codepoints, and the cleanup           *)
(* assignments strictly ascending variable names, one per declared table.  *)
C19_FileIsOrdered ==
    phase # "start" =>
        /\ file = GeneratedFile(SortByNumber(RecordsOf(allMetadata)))
        /\ file # Nil =>
              /\ \A k \in 1..(Len(file.init) - 1) : file.init[k].id < file.init[k + 1].id
              /\ \A k \in 1..(Len(file.collationsUnsupportedByName) - 1) :
                    file.collationsUnsupportedByName[k].id
                        < file.collationsUnsupportedByName[k + 1].id
              /\ \A t \in PatchTables :
                    \A k \in 1..(Len(file.tables[t].content) - 1) :
                        file.tables[t].content[k].Codepoint
                            < file.tables[t].content[k + 1].Codepoint
              /\ \A k \in 1..(Len(file.cleanup) - 1) :
                    StringLess(WordsOf(file.cleanup[k]), WordsOf(file.cleanup[k + 1]))
              /\ {file.cleanup[k] : k \in 1..Len(file.cleanup)}
                    = {file.tables[k].name : k \in 1..Len(file.tables)}

C19_Witness ==
    /\ phase = "init"
    /\ Len(file.init) >= 12
    /\ Len(file.collationsUnsupportedByName) >= 1
    /\ \E t \in PatchTables : Len(file.tables[t].content) >= 2
    /\ Len(file.cleanup) >= 5


(***************************************************************************)
(* Wrangler.ValidateSchemaShard and its diffSchema goroutines (SpecShard). *)
(* wr holds the environment of one call (what the topology server and the  *)
(* tablets will answer) and the progress of the call and of each diff.     *)
(***************************************************************************)
Tablets == {"p", "r1", "r2"}

PrimaryAlias == "p"             \* si.PrimaryAlias of a shard that has a primary

Replicas == Tablets \ {PrimaryAlias}

(* FindAllTabletAliasesInShard: each tablet of the shard once, in any order *)
AliasLists ==
    {a \in SeqsUpTo(Tablets, Cardinality(Tablets)) :
        \A i, j \in 1..Len(a) : i # j => a[i] # a[j]}

ShardEnvs ==
    [getShardOk : BOOLEAN, hasPrimary : BOOLEAN, primaryOk : BOOLEAN,
     includeVSchema : BOOLEAN, vschemaOk : BOOLEAN, findOk : BOOLEAN,
     aliases : AliasLists,
     outcome : [Replicas -> {"same", "differs", "unreadable"}]]

InitShard ==
    /\ phase = "start"
    /\ allMetadata = SortByNumber(RequiredMeta)
    /\ file = Nil
    /\ regpc = 0
    /\ collationsByName = <<>>
    /\ collationsById = <<>>
    /\ weightTables = StaticWeightTables
    /\ pending = [c \in Callers |-> Idle]
    /\ ret = [c \in Callers |-> NoRet]
    /\ gen = NoGen
    /\ \E e \in ShardEnvs :
          wr = [fn |-> "ValidateSchemaShard", env |-> e, pc |-> "GetShard", i |-> 1,
                diffs |-> [t \in Tablets |-> "none"],
                launched |-> [t \in Tablets |-> 0],
                wg |-> 0, er |-> {}, contacted |-> {}, result |-> "none"]

WrFrame ==
    UNCHANGED <<phase, allMetadata, file, regpc, collationsByName, collationsById,
                weightTables, pending, ret, gen>>

(* return err *)
Fail(w, err) == [w EXCEPT !.pc = "returned", !.result = err]

(* lines 198-201 *)
VssGetShard ==
    /\ wr.pc = "GetShard"
    /\ wr' = IF wr.env.getShardOk THEN [wr EXCEPT !.pc = "HasPrimary"]
             ELSE Fail(wr, "GetShard failed")
    /\ WrFrame

(* lines 204-206 *)
VssHasPrimary ==
    /\ wr.pc = "HasPrimary"
    /\ wr' = IF wr.env.hasPrimary THEN [wr EXCEPT !.pc = "GetSchema"]
             ELSE Fail(wr, "no primary in shard")
    /\ WrFrame

(* lines 207-211: GetSchema of the primary *)
VssGetPrimarySchema ==
    /\ wr.pc = "GetSchema"
    /\ LET w == [wr EXCEPT !.contacted = @ \cup {PrimaryAlias}]
       IN  wr' = IF wr.env.primaryOk THEN [w EXCEPT !.pc = "ValidateVSchema"]
                 ELSE Fail(w, "GetSchema failed")
    /\ WrFrame

(* lines 213-218; ValidateVSchema (326-372) reads the primary of the shard *)
VssValidateVSchema ==
    /\ wr.pc = "ValidateVSchema"
    /\ wr' = IF ~wr.env.includeVSchema THEN [wr EXCEPT !.pc = "FindAliases"]
             ELSE LET w == [wr EXCEPT !.contacted = @ \cup {PrimaryAlias}]
                  IN  IF wr.env.vschemaOk THEN [w EXCEPT !.pc = "FindAliases"]
                      ELSE Fail(w, "ValidateVSchema failed")
    /\ WrFrame

(* lines 222-225 *)
VssFindAliases ==
    /\ wr.pc = "FindAliases"
    /\ wr' = IF wr.env.findOk THEN [wr EXCEPT !.pc = "Loop"]
             ELSE Fail(wr, "FindAllTabletAliasesInShard failed")
    /\ WrFrame

(* topoproto.TabletAliasEqual *)
TabletAliasEqual(a, b) == a = b

(* lines 230-237: one pass of the loop, or its end *)
VssLoop ==
    /\ wr.pc = "Loop"
    /\ wr' = IF wr.i > Len(wr.env.aliases) THEN [wr EXCEPT !.pc = "Wait"]
             ELSE LET alias == wr.env.aliases[wr.i]
                  IN  IF TabletAliasEqual(alias, PrimaryAlias)
                      THEN [wr EXCEPT !.i = @ + 1]
                      ELSE [wr EXCEPT !.i = @ + 1,
                                      !.wg = @ + 1,
                                      !.launched[alias] = @ + 1,
                                      !.diffs[alias] = "gather"]
    /\ WrFrame

(* mutant: Wait returns at once *)
WaitReturns_AtOnce(wg) == TRUE

(* sync.WaitGroup.Wait returns when the counter is zero *)
WaitReturns(wg) == wg = 0

(* line 238 *)
VssWait ==
    /\ wr.pc = "Wait"
    /\ WaitReturns(wr.wg)
    /\ wr' = [wr EXCEPT !.pc = "HasErrors"]
    /\ WrFrame

(* lines 239-242 *)
VssReturn ==
    /\ wr.pc = "HasErrors"
    /\ wr' = [wr EXCEPT !.pc = "returned",
                        !.result = IF wr.er # {} THEN "schema diffs" ELSE "nil"]
    /\ WrFrame

(* diffSchema, lines 185-190: GetSchema of the tablet; on an error it is   *)
(* recorded and the deferred wg.Done runs                                  *)
DiffGather(alias) ==
    /\ wr.diffs[alias] = "gather"
    /\ wr' = IF wr.env.outcome[alias] = "unreadable"
             THEN [wr EXCEPT !.contacted = @ \cup {alias}, !.er = @ \cup {alias},
                             !.wg = @ - 1, !.diffs[alias] = "done"]
             ELSE [wr EXCEPT !.contacted = @ \cup {alias}, !.diffs[alias] = "diff"]
    /\ WrFrame

(* diffSchema, lines 192-194: tmutils.DiffSchema records the differences,  *)
(* then the deferred wg.Done runs                                          *)
DiffCompare(alias) ==
    /\ wr.diffs[alias] = "diff"
    /\ wr' = [wr EXCEPT !.er = IF wr.env.outcome[alias] = "differs" THEN @ \cup {alias} ELSE @,
                        !.wg = @ - 1, !.diffs[alias] = "done"]
    /\ WrFrame

DiffSchemaGather == \E alias \in Replicas : DiffGather(alias)

DiffSchemaCompare == \E alias \in Replicas : DiffCompare(alias)

NextShard ==
    \/ VssGetShard \/ VssHasPrimary \/ VssGetPrimarySchema \/ VssValidateVSchema
    \/ VssFindAliases \/ VssLoop \/ VssWait \/ VssReturn
    \/ DiffSchemaGather \/ DiffSchemaCompare

SpecShard == InitShard /\ [][NextShard]_vars

AliasesOfShard == {wr.env.aliases[i] : i \in 1..Len(wr.env.aliases)}

DiffStageReached == wr.pc \in {"Wait", "HasErrors"} \/ wr.result \in {"nil", "schema diffs"}

(* C20: without a shard record, a primary or the primary's schema the call *)
(* returns an error and no replica is contacted and no diff started; a     *)
(* diff is started at most once per tablet, only for aliases of the shard, *)
(* never for the primary, and once the loop is over exactly once for every *)
(* other alias; the call returns only when every started diff has          *)
(* finished, and then with an error exactly when a diff recorded one.      *)
C20_ValidateSchemaShardWaitsForAllDiffs ==
    /\ (~wr.env.getShardOk \/ ~wr.env.hasPrimary \/ ~wr.env.primaryOk) =>
          /\ \A t \in Tablets : wr.launched[t] = 0
          /\ wr.contacted \cap Replicas = {}
          /\ wr.pc = "returned" =>
                wr.result \in {"GetShard failed", "no primary in shard", "GetSchema failed"}
    /\ \A t \in Tablets :
          /\ wr.launched[t] <= 1
          /\ wr.launched[t] = 1 => (t \in AliasesOfShard /\ t # PrimaryAlias)
          /\ t \in wr.contacted \cap Replicas => wr.launched[t] = 1
    /\ DiffStageReached =>
          \A t \in AliasesOfShard \ {PrimaryAlias} : wr.launched[t] = 1
    /\ wr.pc \in {"HasErrors", "returned"} =>
          /\ \A t \in Tablets : wr.diffs[t] \in {"none", "done"}
          /\ wr.wg = 0
    /\ (wr.pc = "returned" /\ DiffStageReached) =>
          /\ wr.result = "schema diffs" <=> wr.er # {}
          /\ wr.er = {t \in AliasesOfShard \ {PrimaryAlias} : wr.env.outcome[t] # "same"}

C20_Witness ==
    /\ wr.pc = "returned"
    /\ wr.result = "schema diffs"
    /\ wr.env.aliases = <<"r2", "p", "r1">>
    /\ wr.env.outcome["r1"] = "same"
    /\ wr.env.outcome["r2"] = "differs"
    /\ wr.contacted = Tablets

(***************************************************************************)
(* Wrangler.ValidateSchemaKeyspace (SpecKeyspace).  The keyspace has two   *)
(* shards of two tablets each.  A tablet alias is a Go pointer to a        *)
(* message: the model keeps the allocation it points to (ptr) beside the   *)
(* tablet the message names.                                               *)
(***************************************************************************)
ShardNames == {"-80", "80-"}

(* byte order of the shard names: '-' (0x2D) sorts before '8' (0x38) *)
ShardRank(n) == IF n = "-80" THEN 1 ELSE 2

RECURSIVE SortShards(_)
(* sort.Strings(shards), line 258 *)
SortShards(S) ==
    IF S = {} THEN <<>>
    ELSE LET m == CHOOSE x \in S : \A y \in S \ {x} : ShardRank(x) < ShardRank(y)
         IN  <<m>> \o SortShards(S \ {m})

KsTablets == {"a1", "a2", "b1", "b2"}

PrimaryOf(shard) == IF shard = "-80" THEN "a1" ELSE "b1"

ReplicaOf(shard) == IF shard = "-80" THEN "a2" ELSE "b2"

TabletsOf(shard) == {PrimaryOf(shard), ReplicaOf(shard)}

NilAlias == [ptr |-> <<"nil">>, tablet |-> "none"]

(* si.PrimaryAlias: the alias message decoded by GetShard for this shard *)
ShardPrimaryAlias(shard) == [ptr |-> <<"GetShard", shard>>, tablet |-> PrimaryOf(shard)]

(* FindAllTabletAliasesInShard builds its own alias messages *)
FindAllTabletAliasesInShard(shard, order) ==
    LET names == IF order = "primaryFirst" THEN <<PrimaryOf(shard), ReplicaOf(shard)>>
                 ELSE <<ReplicaOf(shard), PrimaryOf(shard)>>
    IN  [k \in 1..2 |-> [ptr |-> <<"FindAllTabletAliasesInShard", shard>>, tablet |-> names[k]]]

ShardLists == {<<>>, <<"80-">>, <<"-80", "80-">>, <<"80-", "-80">>}

KeyspaceEnvs ==
    [getShardNamesOk : BOOLEAN, shards : ShardLists,
     status : [ShardNames -> {"ok", "getShardFails", "noPrimary", "findFails"}],
     skipNoPrimary : BOOLEAN, vschema : {"off", "ok", "fails"}, referenceOk : BOOLEAN,
     order : [ShardNames -> {"primaryFirst", "primaryLast"}],
     outcome : [KsTablets -> {"same", "differs", "unreadable"}]]

InitKeyspace ==
    /\ phase = "start"
    /\ allMetadata = SortByNumber(RequiredMeta)
    /\ file = Nil
    /\ regpc = 0
    /\ collationsByName = <<>>
    /\ collationsById = <<>>
    /\ weightTables = StaticWeightTables
    /\ pending = [c \in Callers |-> Idle]
    /\ ret = [c \in Callers |-> NoRet]
    /\ gen = NoGen
    /\ \E e \in KeyspaceEnvs :
          wr = [fn |-> "ValidateSchemaKeyspace", env |-> e, pc |-> "GetShardNames",
                shards |-> <<>>, s |-> 1, i |-> 1,
                referenceSchema |-> "nil", referenceAlias |-> NilAlias,
                diffs |-> [t \in KsTablets |-> "none"],
                launched |-> [t \in KsTablets |-> 0],
                wg |-> 0, er |-> {}, contacted |-> {}, result |-> "none"]

(* lines 249-261: the shard names, the corner cases and the sort; with one *)
(* shard the call is handed over to ValidateSchemaShard                    *)
KsGetShardNames ==
    /\ wr.fn = "ValidateSchemaKeyspace"
    /\ wr.pc = "GetShardNames"
    /\ LET names == wr.env.shards
           sorted == SortShards({names[k] : k \in 1..Len(names)})
       IN  wr' = IF ~wr.env.getShardNamesOk THEN Fail(wr, "GetShardNames failed")
                 ELSE IF Len(names) = 0 THEN Fail(wr, "no shards in keyspace")
                 ELSE IF Len(names) = 1
                      THEN [wr EXCEPT !.shards = sorted, !.pc = "returned",
                                      !.result = "ValidateSchemaShard"]
                 ELSE [wr EXCEPT !.shards = sorted, !.pc = "ValidateVSchema"]
    /\ WrFrame

(* lines 272-277; ValidateVSchema (326-372) reads the primary of each shard *)
KsValidateVSchema ==
    /\ wr.fn = "ValidateSchemaKeyspace"
    /\ wr.pc = "ValidateVSchema"
    /\ wr' = IF wr.env.vschema = "off" THEN [wr EXCEPT !.pc = "Shards"]
             ELSE LET read == {PrimaryOf(n) : n \in {m \in ShardNames : wr.env.status[m] \notin {"getShardFails", "noPrimary"}}}
                      w == [wr EXCEPT !.contacted = @ \cup read]
                  IN  IF wr.env.vschema = "ok" THEN [w EXCEPT !.pc = "Shards"]
                      ELSE Fail(w, "ValidateVSchema failed")
    /\ WrFrame

(* referenceAlias == alias, line 311: equality of two pointers *)
PointerEqual(a, b) == a.ptr = b.ptr

(* lines 280-307: the head of one pass of the loop over the shards *)
KsShard ==
    /\ wr.fn = "ValidateSchemaKeyspace"
    /\ wr.pc = "Shards"
    /\ wr' =
         IF wr.s > Len(wr.shards) THEN [wr EXCEPT !.pc = "Wait"]
         ELSE LET shard == wr.shards[wr.s]
                  st == wr.env.status[shard]
              IN  IF st = "getShardFails"
                  THEN [wr EXCEPT !.er = @ \cup {shard}, !.s = @ + 1]
                  ELSE IF st = "noPrimary"
                  THEN [wr EXCEPT !.er = IF wr.env.skipNoPrimary THEN @ ELSE @ \cup {shard},
                                  !.s = @ + 1]
                  ELSE IF wr.referenceSchema = "nil" /\ ~wr.env.referenceOk
                  THEN Fail([wr EXCEPT !.referenceAlias = ShardPrimaryAlias(shard),
                                       !.contacted = @ \cup {PrimaryOf(shard)}],
                            "GetSchema failed")
                  ELSE LET w == IF wr.referenceSchema = "nil"
                                THEN [wr EXCEPT !.referenceAlias = ShardPrimaryAlias(shard),
                                                !.referenceSchema = "set",
                                                !.contacted = @ \cup {PrimaryOf(shard)}]
                                ELSE wr
                       IN  IF st = "findFails"
                           THEN [w EXCEPT !.er = @ \cup {shard}, !.s = @ + 1]
                           ELSE [w EXCEPT !.pc = "Aliases", !.i = 1]
    /\ WrFrame

(* lines 309-316: one pass of the loop over the aliases of the shard *)
KsAlias ==
    /\ wr.fn = "ValidateSchemaKeyspace"
    /\ wr.pc = "Aliases"
    /\ LET shard == wr.shards[wr.s]
           aliases == FindAllTabletAliasesInShard(shard, wr.env.order[shard])
       IN  wr' = IF wr.i > Len(aliases) THEN [wr EXCEPT !.pc = "Shards", !.s = @ + 1]
                 ELSE LET alias == aliases[wr.i]
                      IN  IF PointerEqual(wr.referenceAlias, alias)
                          THEN [wr EXCEPT !.i = @ + 1]
                          ELSE [wr EXCEPT !.i = @ + 1,
                                          !.wg = @ + 1,
                                          !.launched[alias.tablet] = @ + 1,
                                          !.diffs[alias.tablet] = "gather"]
    /\ WrFrame

(* line 318 *)
KsWait ==
    /\ wr.fn = "ValidateSchemaKeyspace"
    /\ wr.pc = "Wait"
    /\ WaitReturns(wr.wg)
    /\ wr' = [wr EXCEPT !.pc = "HasErrors"]
    /\ WrFrame

(* lines 319-322 *)
KsReturn ==
    /\ wr.fn = "ValidateSchemaKeyspace"
    /\ wr.pc = "HasErrors"
    /\ wr' = [wr EXCEPT !.pc = "returned",
                        !.result = IF wr.er # {} THEN "schema diffs" ELSE "nil"]
    /\ WrFrame

(* the diffSchema goroutines started at line 315 *)
KsDiffSchemaGather == \E alias \in KsTablets : DiffGather(alias)

KsDiffSchemaCompare == \E alias \in KsTablets : DiffCompare(alias)

NextKeyspace ==
    \/ KsGetShardNames \/ KsValidateVSchema \/ KsShard \/ KsAlias
    \/ KsWait \/ KsReturn
    \/ KsDiffSchemaGather \/ KsDiffSchemaCompare

SpecKeyspace == InitKeyspace /\ [][NextKeyspace]_vars

KsLoopOver == wr.pc \in {"Wait", "HasErrors"} \/ wr.result \in {"nil", "schema diffs"}

(* C21: with more than one shard, no diff is started for the tablet the    *)
(* reference alias names, and once the loop over the shards is over every  *)
(* other tablet of every shard that has a primary (and whose record and    *)
(* tablet list could be read) has had exactly one diff started.            *)
C21_ReferenceNeverDiffedAgainstItself ==
    Len(wr.shards) > 1 =>
       /\ wr.referenceAlias # NilAlias => wr.launched[wr.referenceAlias.tablet] = 0
       /\ KsLoopOver =>
             \A shard \in ShardNames :
                wr.env.status[shard] = "ok" =>
                   \A t \in TabletsOf(shard) \ {wr.referenceAlias.tablet} : wr.launched[t] = 1

(***************************************************************************)
(* Wrangler.CopySchemaShard (SpecCopy).  wr.ops is the list of the remote  *)
(* operations the call has made, in order.                                 *)
(***************************************************************************)
CopyEnvs ==
    [getShardOk : BOOLEAN, hasPrimary : BOOLEAN,
     metadata : {"presenceFails", "absent", "readFails", "copied", "insertFails"},
     initial : {"same", "differs", "sourceUnreadable", "destUnreadable"},
     sourceSchemaOk : BOOLEAN, getTabletOk : BOOLEAN,
     statements : 0..MaxStatements, failAt : 0..MaxStatements,
     positionOk : BOOLEAN, skipVerify : BOOLEAN,
     final : {"same", "differs", "unreadable"}, reloadOk : BOOLEAN]

InitCopy ==
    /\ phase = "start"
    /\ allMetadata = SortByNumber(RequiredMeta)
    /\ file = Nil
    /\ regpc = 0
    /\ collationsByName = <<>>
    /\ collationsById = <<>>
    /\ weightTables = StaticWeightTables
    /\ pending = [c \in Callers |-> Idle]
    /\ ret = [c \in Callers |-> NoRet]
    /\ gen = NoGen
    /\ \E e \in CopyEnvs :
          wr = [fn |-> "CopySchemaShard", env |-> e, pc |-> "GetShard", i |-> 1,
                ops |-> <<>>, result |-> "none"]

(* lines 402-405 *)
CssGetShard ==
    /\ wr.fn = "CopySchemaShard"
    /\ wr.pc = "GetShard"
    /\ wr' = IF wr.env.getShardOk THEN [wr EXCEPT !.pc = "HasPrimary"]
             ELSE Fail(wr, "GetShard failed")
    /\ WrFrame

(* lines 407-409 *)
CssHasPrimary ==
    /\ wr.fn = "CopySchemaShard"
    /\ wr.pc = "HasPrimary"
    /\ wr' = IF wr.env.hasPrimary THEN [wr EXCEPT !.pc = "copyShardMetadata"]
             ELSE Fail(wr, "no primary in shard record")
    /\ WrFrame

(* copyShardMetadata, lines 487-525: the operations it makes and whether   *)
(* it returns an error                                                     *)
copyShardMetadata(env) ==
    LET presence == <<"source: SELECT presence of _vt.shard_metadata">>
        read == <<"source: SELECT _vt.shard_metadata">>
        insert == <<"dest: INSERT INTO _vt.shard_metadata">>
    IN  IF env.metadata = "presenceFails" THEN [ops |-> presence, err |-> TRUE]
        ELSE IF env.metadata = "absent" THEN [ops |-> presence, err |-> FALSE]
        ELSE IF env.metadata = "readFails" THEN [ops |-> presence \o read, err |-> TRUE]
        ELSE [ops |-> presence \o read \o insert, err |-> env.metadata = "insertFails"]

(* lines 411-414 *)
CssCopyShardMetadata ==
    /\ wr.fn = "CopySchemaShard"
    /\ wr.pc = "copyShardMetadata"
    /\ LET r == copyShardMetadata(wr.env)
           w == [wr EXCEPT !.ops = @ \o r.ops]
       IN  wr' = IF r.err THEN Fail(w, "copyShardMetadata failed")
                 ELSE [w EXCEPT !.pc = "compareSchemas"]
    /\ WrFrame

(* mutant: the comparison always reports a difference *)
compareSchemas_AlwaysDiffers(answer) ==
    IF answer = "sourceUnreadable"
    THEN [ops |-> <<"source: GetSchema">>, err |-> TRUE, diffs |-> "nil"]
    ELSE IF answer \in {"destUnreadable", "unreadable"}
    THEN [ops |-> <<"source: GetSchema", "dest: GetSchema">>, err |-> TRUE, diffs |-> "nil"]
    ELSE [ops |-> <<"source: GetSchema", "dest: GetSchema">>, err |-> FALSE, diffs |-> "differ"]

(* compareSchemas, lines 530-540: nil when the two schemas are identical *)
compareSchemas(answer) ==
    IF answer = "sourceUnreadable"
    THEN [ops |-> <<"source: GetSchema">>, err |-> TRUE, diffs |-> "nil"]
    ELSE IF answer \in {"destUnreadable", "unreadable"}
    THEN [ops |-> <<"source: GetSchema", "dest: GetSchema">>, err |-> TRUE, diffs |-> "nil"]
    ELSE [ops |-> <<"source: GetSchema", "dest: GetSchema">>, err |-> FALSE,
          diffs |-> IF answer = "same" THEN "nil" ELSE "differ"]

(* lines 416-423 *)
CssCompareInitially ==
    /\ wr.fn = "CopySchemaShard"
    /\ wr.pc = "compareSchemas"
    /\ LET r == compareSchemas(wr.env.initial)
           w == [wr EXCEPT !.ops = @ \o r.ops]
       IN  wr' = IF r.err THEN Fail(w, "schemas could not be compared initially")
                 ELSE IF r.diffs = "nil" THEN [w EXCEPT !.pc = "returned", !.result = "nil"]
                 ELSE [w EXCEPT !.pc = "GetSchema"]
    /\ WrFrame

(* lines 425-429 *)
CssGetSourceSchema ==
    /\ wr.fn = "CopySchemaShard"
    /\ wr.pc = "GetSchema"
    /\ LET w == [wr EXCEPT !.ops = Append(@, "source: GetSchema")]
       IN  wr' = IF wr.env.sourceSchemaOk THEN [w EXCEPT !.pc = "GetTablet"]
                 ELSE Fail(w, "GetSchema failed")
    /\ WrFrame

(* lines 430-433 *)
CssGetTablet ==
    /\ wr.fn = "CopySchemaShard"
    /\ wr.pc = "GetTablet"
    /\ wr' = IF wr.env.getTabletOk THEN [wr EXCEPT !.pc = "applySQLShard", !.i = 1]
             ELSE Fail(wr, "GetTablet failed")
    /\ WrFrame

(* lines 434-442, applySQLShard 549-559: one statement of createSQL, or    *)
(* the end of the loop                                                     *)
CssApplySQLShard ==
    /\ wr.fn = "CopySchemaShard"
    /\ wr.pc = "applySQLShard"
    /\ wr' = IF wr.i > wr.env.statements THEN [wr EXCEPT !.pc = "MasterPosition"]
             ELSE LET w == [wr EXCEPT !.ops = Append(@, "dest: apply schema statement")]
                  IN  IF wr.env.failAt = wr.i THEN Fail(w, "creating a table failed")
                      ELSE [w EXCEPT !.i = @ + 1]
    /\ WrFrame

(* lines 445-448 *)
CssMasterPosition ==
    /\ wr.fn = "CopySchemaShard"
    /\ wr.pc = "MasterPosition"
    /\ LET w == [wr EXCEPT !.ops = Append(@, "dest: MasterPosition")]
       IN  wr' = IF wr.env.positionOk THEN [w EXCEPT !.pc = "verify"]
                 ELSE Fail(w, "can't get replication position")
    /\ WrFrame

(* lines 456-464 *)
CssVerify ==
    /\ wr.fn = "CopySchemaShard"
    /\ wr.pc = "verify"
    /\ wr' = IF wr.env.skipVerify THEN [wr EXCEPT !.pc = "ReloadSchemaShard"]
             ELSE LET r == compareSchemas(wr.env.final)
                      w == [wr EXCEPT !.ops = @ \o r.ops]
                  IN  IF r.err THEN Fail(w, "schemas could not be compared finally")
                      ELSE IF r.diffs # "nil" THEN Fail(w, "the schemas differ")
                      ELSE [w EXCEPT !.pc = "ReloadSchemaShard"]
    /\ WrFrame

(* lines 467-481 *)
CssReloadSchemaShard ==
    /\ wr.fn = "CopySchemaShard"
    /\ wr.pc = "ReloadSchemaShard"
    /\ wr' = [wr EXCEPT !.ops = Append(@, "ReloadSchemaShard"),
                        !.pc = "returned",
                        !.result = IF wr.env.reloadOk THEN "nil" ELSE "ReloadSchemaShard failed"]
    /\ WrFrame

NextCopy ==
    \/ CssGetShard \/ CssHasPrimary \/ CssCopyShardMetadata \/ CssCompareInitially
    \/ CssGetSourceSchema \/ CssGetTablet \/ CssApplySQLShard \/ CssMasterPosition
    \/ CssVerify \/ CssReloadSchemaShard

SpecCopy == InitCopy /\ [][NextCopy]_vars

OpsOf(w) == {w.ops[k] : k \in 1..Len(w.ops)}

AfterInitialComparison ==
    /\ wr.pc \notin {"GetShard", "HasPrimary", "copyShardMetadata", "compareSchemas"}
    /\ wr.result \notin {"GetShard failed", "no primary in shard record",
                         "copyShardMetadata failed"}

(* C22: when the initial comparison finds no difference, CopySchemaShard   *)
(* has returned nil right after it: no schema statement is ever applied to *)
(* the destination primary, its replication position is never read and the *)
(* replicas are never asked to reload.                                     *)
C22_CopySchemaShardReturnsEarly ==
    wr.env.initial = "same" =>
       /\ OpsOf(wr) \cap {"dest: apply schema statement", "dest: MasterPosition",
                          "ReloadSchemaShard"} = {}
       /\ AfterInitialComparison =>
             /\ wr.pc = "returned"
             /\ wr.result = "nil"
             /\ wr.ops[Len(wr.ops)] = "dest: GetSchema"

C22_Witness ==
    /\ wr.env.initial = "same"
    /\ wr.env.statements = MaxStatements
    /\ wr.env.metadata = "copied"
    /\ wr.pc = "returned"
    /\ wr.result = "nil"
    /\ Len(wr.ops) = 5

====
